---- MODULE Spec2Model ----
(***************************************************************************)
(* A model of the WARC record codec of warcat: the push decoder state      *)
(* machine, the pull decoder built on it, the record encoder, and the      *)
(* header parser and serializer they share.                                *)
(*                                                                         *)
(* A byte is a string: printable ASCII bytes are one-character strings,    *)
(* control bytes are "\r", "\n", "\t", and the few non-ASCII bytes the     *)
(* code looks at are written by their hexadecimal name ("0x1f").  A byte   *)
(* sequence (a slice, a Vec<u8>, a VecDeque<u8>) is a TLA+ sequence.       *)
(***************************************************************************)
EXTENDS Integers, Sequences, FiniteSets, TLC

VARIABLES
    stream,     \* the raw bytes of the file that is being decoded
    format,     \* config.decompressor.format of the decoder
    pd,         \* the PushDecoder (warc/decode.rs)
    wpos,       \* bytes of stream handed to PushDecoder::write / read from the source so far
    event,      \* what the last call on the decoder returned
    obs,        \* observer of the event sequence (history)
    dec,        \* the pull Decoder wrapped around pd (warc/decode.rs)
    enc,        \* the Encoder (warc/encode.rs)
    call        \* the last call made on the encoder and its outcome

vars == <<stream, format, pd, wpos, event, obs, dec, enc, call>>

----------------------------------------------------------------------------
(* Bytes and byte classes *)

CR == "\r"
LF == "\n"
SP == " "
HTAB == "\t"
CRLF == <<CR, LF>>

DigitSeq == <<"0", "1", "2", "3", "4", "5", "6", "7", "8", "9">>
UpperSeq == <<"A", "B", "C", "D", "E", "F", "G", "H", "I", "J", "K", "L", "M",
              "N", "O", "P", "Q", "R", "S", "T", "U", "V", "W", "X", "Y", "Z">>
LowerSeq == <<"a", "b", "c", "d", "e", "f", "g", "h", "i", "j", "k", "l", "m",
              "n", "o", "p", "q", "r", "s", "t", "u", "v", "w", "x", "y", "z">>

Range(s) == {s[i] : i \in 1..Len(s)}

DigitSet == Range(DigitSeq)
AlphaSet == Range(UpperSeq) \cup Range(LowerSeq)

\* u8::is_ascii_graphic: 0x21..=0x7e (the quote characters and the backslash,
\* which no input of the model holds, are left out)
GraphicSet == DigitSet \cup AlphaSet \cup
    {"!", "#", "$", "%", "&", "*", "+", "-", ".", "^", "_", "|", "~",
     "(", ")", ",", "/", ":", ";", "<", "=", ">", "?", "@", "[", "]", "{", "}"}

\* Bytes >= 0x80 that occur in the model.
ObsTextSet == {"0x80", "0x8b", "0xb5", "0xfd", "0xff"}

\* The bytes that pass is_tchar, is_field_vchar, is_field_char, and the bytes
\* space0 / space1 of nom take.
is_tchar ==
    DigitSet \cup AlphaSet \cup
        {"!", "#", "$", "%", "&", "*", "+", "-", ".", "^", "_", "|", "~"}

is_obs_text == ObsTextSet

is_field_vchar == GraphicSet \cup is_obs_text

is_field_char == is_field_vchar \cup {SP, HTAB}

is_space == {SP, HTAB}

\* The place of a symbol in a sequence of symbols
PlaceIn(symbols, c) == CHOOSE i \in 1..Len(symbols) : symbols[i] = c
IsIn(symbols, c) == \E i \in 1..Len(symbols) : symbols[i] = c

\* u8::to_ascii_lowercase
ToLower(b) ==
    IF b \in Range(UpperSeq)
    THEN LowerSeq[CHOOSE i \in 1..26 : UpperSeq[i] = b]
    ELSE b

\* str::eq_ignore_ascii_case
eq_ignore_ascii_case(a, b) ==
    /\ Len(a) = Len(b)
    /\ \A i \in 1..Len(a) : ToLower(a[i]) = ToLower(b[i])

starts_with(data, prefix) ==
    /\ Len(data) >= Len(prefix)
    /\ SubSeq(data, 1, Len(prefix)) = prefix

\* The bytes of data from the 1-based position i on.
From(data, i) == SubSeq(data, i, Len(data))

\* The 1-based position of the first byte at or after i that fails the test
\* (Len(data) + 1 when every byte passes): take_while of nom.
TakeWhile(data, i, class) ==
    IF i > Len(data) THEN i
    ELSE CHOOSE j \in i..(Len(data) + 1) :
            /\ j = Len(data) + 1 \/ data[j] \notin class
            /\ \A k \in i..(j - 1) : data[k] \in class

\* The same for the bytes outside a class: take_till of nom.
TakeTill(data, i, class) ==
    IF i > Len(data) THEN i
    ELSE CHOOSE j \in i..(Len(data) + 1) :
            /\ j = Len(data) + 1 \/ data[j] \in class
            /\ \A k \in i..(j - 1) : data[k] \notin class

----------------------------------------------------------------------------
(* parse/header_deliminator.rs, parse/warc.rs, parse/fields.rs, parse.rs *)

\* nom::character::complete::line_ending at position i: the number of bytes
\* it matches ("\n" or "\r\n"), 0 when it fails.
line_ending(data, i) ==
    IF i <= Len(data) /\ data[i] = LF THEN 1
    ELSE IF i + 1 <= Len(data) /\ data[i] = CR /\ data[i + 1] = LF THEN 2
    ELSE 0

\* The position after one field line that starts at i, 0 when it fails.
field_line(data, i) ==
    LET j == TakeTill(data, i, {CR, LF})
        e == line_ending(data, j)
    IN  IF j = i \/ e = 0 THEN 0 ELSE j + e

\* The number of bytes recognized from position i - 1 on, -1 when it fails.
RECURSIVE field_lines(_, _)
field_lines(data, i) ==
    LET n == field_line(data, i)
        e == line_ending(data, i)
    IN  IF n # 0 THEN field_lines(data, n)
        ELSE IF e = 0 THEN -1
        ELSE i + e - 1

\* Some(index) is the index, None is -1.
scan_header_deliminator(data) == field_lines(data, 1)

WarcTag == <<"W", "A", "R", "C", "/">>

is_version_char == DigitSet \cup {"."}

\* The position after the version, 0 when it fails.
version(data) ==
    IF starts_with(data, WarcTag) THEN TakeWhile(data, 6, is_version_char) ELSE 0

\* The position after the version line, 0 when it fails.
version_line(data) ==
    LET v == version(data)
        e == IF v = 0 THEN 0 ELSE line_ending(data, v)
    IN  IF e = 0 THEN 0 ELSE v + e

\* The position after the field value that starts at i.
RECURSIVE field_value(_, _)
field_value(data, i) ==
    LET e == line_ending(data, i)
        w == TakeWhile(data, i + e, is_space)
    IN  IF i <= Len(data) /\ data[i] \in is_field_vchar
        THEN field_value(data, TakeWhile(data, i + 1, is_field_char))
        ELSE IF e # 0 /\ w > i + e
        THEN field_value(data, w)
        ELSE i

\* validate_field_value(value, false): field_value_no_multline consumes it all.
RECURSIVE field_value_no_multline(_, _)
field_value_no_multline(data, i) ==
    IF i <= Len(data) /\ data[i] \in is_field_vchar
    THEN field_value_no_multline(data, TakeWhile(data, i + 1, is_field_char))
    ELSE i

\* One field pair followed by a line ending, from position i:
\* [ok, name, value, next].
field_pair(data, i) ==
    LET n == TakeWhile(data, i, is_tchar)
        colon == n > i /\ n <= Len(data) /\ data[n] = ":"
        v0 == TakeWhile(data, n + 1, is_space)
        v1 == field_value(data, v0)
        v2 == TakeWhile(data, v1, is_space)
        e == line_ending(data, v2)
    IN  IF colon /\ e # 0
        THEN [ok |-> TRUE, name |-> SubSeq(data, i, n - 1),
              value |-> SubSeq(data, v0, v1 - 1), next |-> v2 + e]
        ELSE [ok |-> FALSE, name |-> <<>>, value |-> <<>>, next |-> i]

\* many0(terminated(field_pair, line_ending)): the pairs up to the first
\* line that is no field pair.
RECURSIVE field_pairs(_, _)
field_pairs(data, i) ==
    LET p == field_pair(data, i)
    IN  IF p.ok
        THEN <<[name |-> p.name, value |-> p.value]>> \o field_pairs(data, p.next)
        ELSE <<>>

\* Regex (?:\r\n|\n)[ \t]+ replaced by one space.
RECURSIVE remove_line_folding(_)
remove_line_folding(value) ==
    LET e == line_ending(value, 1)
        w == TakeWhile(value, 1 + e, is_space)
    IN  IF \A i \in 1..Len(value) : value[i] # LF THEN value
        ELSE IF e # 0 /\ w > 1 + e
        THEN <<SP>> \o remove_line_folding(From(value, w))
        ELSE <<Head(value)>> \o remove_line_folding(Tail(value))

\* The value of a string of decimal digits.
RECURSIVE DigitsValue(_)
DigitsValue(s) ==
    IF s = <<>> THEN 0
    ELSE 10 * DigitsValue(SubSeq(s, 1, Len(s) - 1))
         + (CHOOSE d \in 0..9 : DigitSeq[d + 1] = s[Len(s)])

\* u64::MAX in digits, and whether the number of a text of digits is one
\* of u64: str::parse::<u64> fails with PosOverflow when it is not
U64_MAX ==
    <<"1", "8", "4", "4", "6", "7", "4", "4", "0", "7", "3", "7", "0", "9",
      "5", "5", "1", "6", "1", "5">>

FitsU64(digits) ==
    LET first == TakeWhile(digits, 1, {"0"})
        d == SubSeq(digits, first, Len(digits))
    IN  \/ Len(d) < Len(U64_MAX)
        \/ /\ Len(d) = Len(U64_MAX)
           /\ \A i \in 1..Len(d) :
                 (\A j \in 1..(i - 1) : d[j] = U64_MAX[j]) =>
                    PlaceIn(DigitSeq, d[i]) <= PlaceIn(DigitSeq, U64_MAX[i])

\* A parse that takes a sign, as str::parse::<u64> alone does
Mutant_parse_u64_strict(value) ==
    IF value # <<>> /\ value[1] = "+" /\ Len(value) > 1
       /\ \A i \in 2..Len(value) : value[i] \in DigitSet
    THEN DigitsValue(Tail(value))
    ELSE IF value = <<>> \/ \E i \in 1..Len(value) : value[i] \notin DigitSet
    THEN -1
    ELSE DigitsValue(value)

parse_u64_strict(value) ==
    IF value = <<>> \/ \E i \in 1..Len(value) : value[i] \notin DigitSet
    THEN -1
    ELSE IF ~FitsU64(value) THEN -1
    ELSE DigitsValue(value)

\* u64::to_string
RECURSIVE to_string(_)
to_string(n) ==
    IF n < 10 THEN <<DigitSeq[n + 1]>>
    ELSE to_string(n \div 10) \o <<DigitSeq[(n % 10) + 1]>>

----------------------------------------------------------------------------
(* fields.rs and header.rs *)

\* FieldMap::remove
FieldMap_remove(fields, name) ==
    LET keep(f) == ~eq_ignore_ascii_case(f.name, name)
    IN  SelectSeq(fields, keep)

\* FieldMap::insert
FieldMap_insert(fields, name, value) ==
    Append(FieldMap_remove(fields, name), [name |-> name, value |-> value])

\* FieldMap::get: <<value>> is Some(value), <<>> is None.
FieldMap_get(fields, name) ==
    LET hit(f) == eq_ignore_ascii_case(f.name, name)
        found == SelectSeq(fields, hit)
    IN  IF found = <<>> THEN <<>> ELSE <<found[1].value>>

RECURSIVE InsertAll(_, _)
InsertAll(fields, pairs) ==
    IF pairs = <<>> THEN fields
    ELSE InsertAll(FieldMap_insert(fields, pairs[1].name,
                                   remove_line_folding(pairs[1].value)),
                   Tail(pairs))

\* WarcHeader::parse: [ok, version, fields].
WarcHeader_parse(input) ==
    LET v == version(input)
        n == version_line(input)
    IN  IF n = 0
        THEN [ok |-> FALSE, version |-> <<>>, fields |-> <<>>]
        ELSE [ok |-> TRUE, version |-> SubSeq(input, 1, v - 1),
              fields |-> InsertAll(<<>>, field_pairs(input, n))]

ContentLengthName ==
    <<"C", "o", "n", "t", "e", "n", "t", "-", "L", "e", "n", "g", "t", "h">>

\* WarcHeader::content_length: the length, -1 is Err(InvalidContentLength).
content_length(header) ==
    LET v == FieldMap_get(header.fields, ContentLengthName)
    IN  IF v = <<>> THEN -1 ELSE parse_u64_strict(v[1])

\* WarcHeader::validate
validate(header) ==
    /\ version(header.version) # 0
    /\ \A i \in 1..Len(header.fields) :
          LET f == header.fields[i]
          IN  /\ f.name # <<>>
              /\ TakeWhile(f.name, 1, is_tchar) = Len(f.name) + 1
              /\ field_value_no_multline(f.value, 1) = Len(f.value) + 1

RECURSIVE serialize_fields(_)
serialize_fields(fields) ==
    IF fields = <<>> THEN <<>>
    ELSE fields[1].name \o <<":", SP>> \o fields[1].value \o CRLF
         \o serialize_fields(Tail(fields))

\* WarcHeader::serialize
serialize(header) ==
    header.version \o CRLF \o serialize_fields(header.fields) \o CRLF

----------------------------------------------------------------------------
(* compress.rs, compress/decode.rs: PushDecompressor<VecDeque<u8>>          *)
(*                                                                         *)
(* The decompressor is [output, codec]: output is the VecDeque the decoded *)
(* bytes are written to, codec the state of the gzip member decoder (not   *)
(* used by the identity format).  A gzip member is modelled by its layout: *)
(* the two magic bytes, the deflate stream (stored bytes, closed by the    *)
(* end-of-stream byte "eos"), and a two-byte trailer (CRC32, ISIZE).       *)

IO_BUFFER_LENGTH == 4096
BUFFER_LENGTH == IO_BUFFER_LENGTH
MAX_HEADER_LENGTH == 32768

Min(a, b) == IF a < b THEN a ELSE b

GzMagic == <<"0x1f", "0x8b">>
GzEos == "eos"
GzTrailer == <<"crc32", "isize">>

\* Format::is_multistream (supports_concatenation in warc/decode.rs)
supports_concatenation(fmt) == fmt = "Gzip"

is_identity(fmt) == fmt = "Identity"

\* create_push_decoder
create_push_decoder(dest) ==
    [output |-> dest, codec |-> [phase |-> "header", got |-> 0]]

\* PushDecoder::write of compress/decode.rs, Gzip arm (the write of
\* flate2::write::GzDecoder): [ok, n, d].  One call works on the part of the
\* member the codec is in; at the end of the deflate stream it also takes
\* the trailer bytes that follow in buf; a finished member takes nothing.
GzWrite(d, buf) ==
    LET c == d.codec
        h == Min(Len(GzMagic) - c.got, Len(buf))
        j == TakeTill(buf, 1, {GzEos})
        t == Min(Len(GzTrailer), Len(buf) - j)
        u == Min(Len(GzTrailer) - c.got, Len(buf))
        after(k) == IF k = Len(GzTrailer) THEN [phase |-> "done", got |-> 0]
                    ELSE [phase |-> "trailer", got |-> k]
    IN  CASE c.phase = "header" ->
               IF SubSeq(buf, 1, h) # SubSeq(GzMagic, c.got + 1, c.got + h)
               THEN [ok |-> FALSE, n |-> 0, d |-> d]
               ELSE [ok |-> TRUE, n |-> h,
                     d |-> [d EXCEPT !.codec =
                              IF c.got + h = Len(GzMagic)
                              THEN [phase |-> "body", got |-> 0]
                              ELSE [phase |-> "header", got |-> c.got + h]]]
          [] c.phase = "body" ->
               IF j > Len(buf)
               THEN [ok |-> TRUE, n |-> Len(buf),
                     d |-> [d EXCEPT !.output = @ \o buf]]
               ELSE [ok |-> TRUE, n |-> j + t,
                     d |-> [output |-> d.output \o SubSeq(buf, 1, j - 1),
                            codec |-> after(t)]]
          [] c.phase = "trailer" ->
               [ok |-> TRUE, n |-> u,
                d |-> [d EXCEPT !.codec = after(c.got + u)]]
          [] OTHER -> [ok |-> TRUE, n |-> 0, d |-> d]

\* PushDecompressor::write: [ok, n, d].  The decoder that a failed
\* restart_stream has left as PushDecoder::None is unreachable!(): not ok.
decompressor_write(fmt, d, buf) ==
    IF d.codec.phase = "none" THEN [ok |-> FALSE, n |-> 0, d |-> d]
    ELSE IF is_identity(fmt)
    THEN [ok |-> TRUE, n |-> Len(buf), d |-> [d EXCEPT !.output = @ \o buf]]
    ELSE GzWrite(d, buf)

\* PushDecompressor::restart_stream (start_next_segment in warc/decode.rs):
\* into_inner finishes the codec, which fails unless the member is complete,
\* and a new codec is created over the same output.  The decoder is taken
\* out with mem::replace before into_inner is tried, so a failure leaves
\* PushDecoder::None behind (phase "none"), on which into_inner and write
\* are unreachable!().  [ok, d]
start_next_segment(fmt, d) ==
    IF d.codec.phase = "none" THEN [ok |-> FALSE, d |-> d]
    ELSE IF is_identity(fmt) THEN [ok |-> TRUE, d |-> d]
    ELSE IF d.codec.phase # "done"
    THEN [ok |-> FALSE, d |-> [d EXCEPT !.codec.phase = "none"]]
    ELSE [ok |-> TRUE, d |-> create_push_decoder(d.output)]

----------------------------------------------------------------------------
(* warc/decode.rs: PushDecoder *)

NoHeader == [ok |-> FALSE, version |-> <<>>, fields |-> <<>>]

Ev(kind) == [kind |-> kind, header |-> NoHeader, data |-> <<>>, err |-> "None"]
Err(kind) == [kind |-> "Err", header |-> NoHeader, data |-> <<>>, err |-> kind]
NoEvent == Ev("None")

\* PushDecoder::new
PushDecoder_new ==
    [state |-> "PendingHeader",
     decompressor |-> create_push_decoder(<<>>),
     decompressor_eof |-> FALSE,
     input_eof |-> FALSE,
     deferred_input_buf |-> <<>>,
     bytes_written_decoder |-> 0,
     decoded_bytes_consumed |-> 0,
     record_boundary_position |-> 0,
     block_length |-> 0,
     block_current_position |-> 0,
     buf_output_max_len |-> BUFFER_LENGTH,
     buf_output_reference_len |-> 0,
     has_rat_comp_fault |-> FALSE]

set_max_buffer_len(p, value) ==
    [p EXCEPT !.buf_output_max_len = IF value # 0 THEN value ELSE BUFFER_LENGTH]

\* is_ready that holds for every decoder that is not finished
Mutant_is_ready(p) == p.state # "Finished"

is_ready(p) == p.state = "PendingHeader"

is_finished(p) == p.state = "Finished"

\* The decoded bytes that are buffered: decompressor.get_ref()
decoded(p) == p.decompressor.output

\* decompressor.get_mut().drain(0..n)
drain(p, n) ==
    [p EXCEPT !.decompressor.output = SubSeq(@, n + 1, Len(@))]

\* b"\x28\xb5\x2f\xfd": 0x28 and 0x2f are the characters ( and /
ZstdMagic == <<"(", "0xb5", "/", "0xfd">>

detect_header(buf) ==
    IF starts_with(buf, WarcTag) THEN "Warc"
    ELSE IF starts_with(buf, GzMagic) \/ starts_with(buf, ZstdMagic)
    THEN "Compression"
    ELSE IF Len(buf) >= 5 THEN "NotWarc"
    ELSE "NotSure"

\* "Ok" or the kind of the protocol error
precheck_header(p) ==
    CASE detect_header(decoded(p)) = "Compression" -> "UnexpectedCompression"
      [] detect_header(decoded(p)) = "NotWarc" -> "UnknownHeader"
      [] OTHER -> "Ok"

check_max_header_length(p) ==
    IF Len(decoded(p)) > MAX_HEADER_LENGTH THEN "HeaderTooBig" ELSE "Ok"

\* [pd, ev]: the decoder after the call and the event (or error) returned
process_decodable_header(p, index) ==
    LET header == WarcHeader_parse(SubSeq(decoded(p), 1, index))
        length == content_length(header)
    IN  IF ~header.ok THEN [pd |-> p, ev |-> Err("Parse")]
        ELSE IF length < 0 THEN [pd |-> p, ev |-> Err("InvalidContentLength")]
        ELSE [pd |-> [drain(p, index) EXCEPT
                        !.decoded_bytes_consumed = @ + index,
                        !.block_current_position = 0,
                        !.block_length = length,
                        !.state = "Block"],
              ev |-> [Ev("Header") EXCEPT !.header = header]]

process_header(p) ==
    LET index == scan_header_deliminator(decoded(p))
    IN  IF index >= 0 THEN process_decodable_header(p, index)
        ELSE IF precheck_header(p) # "Ok"
        THEN [pd |-> p, ev |-> Err(precheck_header(p))]
        ELSE IF check_max_header_length(p) # "Ok"
        THEN [pd |-> p, ev |-> Err(check_max_header_length(p))]
        ELSE [pd |-> p, ev |-> Ev("WantData")]

\* process_block that does not cap the slice at the bytes the block still
\* has to give.
Mutant_process_block(p, slice0_len) ==
    LET remaining_bytes == p.block_length - p.block_current_position
        consume_len == Min(p.buf_output_max_len, slice0_len)
    IN  IF remaining_bytes <= 0
        THEN [pd |-> [p EXCEPT !.state = "RecordBoundary"], ev |-> Ev("Continue")]
        ELSE IF decoded(p) = <<>>
        THEN [pd |-> p, ev |-> Ev("WantData")]
        ELSE [pd |-> [p EXCEPT !.block_current_position = @ + consume_len,
                               !.buf_output_reference_len = consume_len,
                               !.decoded_bytes_consumed = @ + consume_len],
              ev |-> [Ev("BlockData") EXCEPT
                        !.data = SubSeq(decoded(p), 1, consume_len)]]

\* slice0_len is the length of the first slice of the VecDeque (as_slices),
\* which depends on where the ring buffer wraps.
process_block(p, slice0_len) ==
    LET remaining_bytes == p.block_length - p.block_current_position
        consume_len == Min(Min(p.buf_output_max_len, slice0_len), remaining_bytes)
    IN  IF remaining_bytes = 0
        THEN [pd |-> [p EXCEPT !.state = "RecordBoundary"], ev |-> Ev("Continue")]
        ELSE IF decoded(p) = <<>>
        THEN [pd |-> p, ev |-> Ev("WantData")]
        ELSE [pd |-> [p EXCEPT !.block_current_position = @ + consume_len,
                               !.buf_output_reference_len = consume_len,
                               !.decoded_bytes_consumed = @ + consume_len],
              ev |-> [Ev("BlockData") EXCEPT
                        !.data = SubSeq(decoded(p), 1, consume_len)]]

process_record_boundary(p) ==
    IF Len(decoded(p)) >= 4
    THEN IF SubSeq(decoded(p), 1, 4) # CRLF \o CRLF
         THEN [pd |-> p, ev |-> Err("InvalidRecordBoundary")]
         ELSE [pd |-> [drain(p, 4) EXCEPT !.decoded_bytes_consumed = @ + 4,
                                          !.state = "EndOfSegment"],
               ev |-> Ev("Continue")]
    ELSE [pd |-> p, ev |-> Ev("WantData")]

\* The loop of consume_deferred_input_buf.  Each turn writes the first slice
\* of the deferred buffer; the turns go on until the buffer is empty or a
\* write takes nothing, so where the slices split does not change the result
\* and a turn is modelled as writing the whole buffer.  [ok, pd]
RECURSIVE consume_deferred_input_buf(_, _)
consume_deferred_input_buf(fmt, p) ==
    LET w == decompressor_write(fmt, p.decompressor, p.deferred_input_buf)
    IN  IF p.deferred_input_buf = <<>> THEN [ok |-> TRUE, pd |-> p]
        ELSE IF ~w.ok THEN [ok |-> FALSE, pd |-> p]
        ELSE IF w.n = 0 THEN [ok |-> TRUE, pd |-> p]
        ELSE consume_deferred_input_buf(fmt,
                [p EXCEPT !.decompressor = w.d,
                          !.bytes_written_decoder = @ + w.n,
                          !.deferred_input_buf = SubSeq(@, w.n + 1, Len(@))])

\* reset_for_next_record that takes the position from the bytes written
\* whatever the format, and does nothing else.
Mutant_reset_for_next_record(fmt, p) ==
    [ok |-> TRUE,
     pd |-> [p EXCEPT !.record_boundary_position = p.bytes_written_decoder,
                      !.decompressor_eof = FALSE,
                      !.state = IF decoded(p) = <<>>
                                THEN IF p.input_eof THEN "Finished"
                                     ELSE "PendingHeader"
                                ELSE "Header"]]

\* reset_for_next_record that sets the fault at the end of every record of
\* a format that supports concatenation, bytes buffered or not.
Mutant_reset_sets_fault(fmt, p) ==
    LET p1 == [p EXCEPT !.record_boundary_position =
                  IF is_identity(fmt) THEN p.decoded_bytes_consumed
                  ELSE p.bytes_written_decoder]
        seg == start_next_segment(fmt, p1.decompressor)
        restart == supports_concatenation(fmt) /\ decoded(p1) = <<>>
        p2 == IF restart
              THEN [p1 EXCEPT !.decompressor = seg.d, !.has_rat_comp_fault = TRUE]
              ELSE IF supports_concatenation(fmt) /\ ~p1.has_rat_comp_fault
              THEN [p1 EXCEPT !.has_rat_comp_fault = TRUE]
              ELSE p1
        c == consume_deferred_input_buf(fmt, p2)
        p3 == [c.pd EXCEPT !.decompressor_eof = FALSE]
    IN  IF restart /\ ~seg.ok
        THEN [ok |-> FALSE, pd |-> [p1 EXCEPT !.decompressor = seg.d]]
        ELSE IF ~c.ok THEN [ok |-> FALSE, pd |-> c.pd]
        ELSE [ok |-> TRUE,
              pd |-> [p3 EXCEPT !.state =
                        IF decoded(p3) = <<>>
                        THEN IF p3.input_eof THEN "Finished" ELSE "PendingHeader"
                        ELSE "Header"]]

\* [ok, pd]
reset_for_next_record(fmt, p) ==
    LET p1 == [p EXCEPT !.record_boundary_position =
                  IF is_identity(fmt) THEN p.decoded_bytes_consumed
                  ELSE p.bytes_written_decoder]
        seg == start_next_segment(fmt, p1.decompressor)
        restart == supports_concatenation(fmt) /\ decoded(p1) = <<>>
        p2 == IF restart THEN [p1 EXCEPT !.decompressor = seg.d]
              ELSE IF supports_concatenation(fmt) /\ ~p1.has_rat_comp_fault
              THEN [p1 EXCEPT !.has_rat_comp_fault = TRUE]
              ELSE p1
        c == consume_deferred_input_buf(fmt, p2)
        p3 == [c.pd EXCEPT !.decompressor_eof = FALSE]
    IN  IF restart /\ ~seg.ok
        THEN [ok |-> FALSE, pd |-> [p1 EXCEPT !.decompressor = seg.d]]
        ELSE IF ~c.ok THEN [ok |-> FALSE, pd |-> c.pd]
        ELSE [ok |-> TRUE,
              pd |-> [p3 EXCEPT !.state =
                        IF decoded(p3) = <<>>
                        THEN IF p3.input_eof THEN "Finished" ELSE "PendingHeader"
                        ELSE "Header"]]

\* process_end_of_segment that reports EndRecord and stays where it is.
Mutant_process_end_of_segment(fmt, p) ==
    [pd |-> p, ev |-> Ev("EndRecord")]

process_end_of_segment(fmt, p) ==
    LET r == reset_for_next_record(fmt, p)
    IN  IF /\ supports_concatenation(fmt)
           /\ decoded(p) = <<>>
           /\ ~p.decompressor_eof
           /\ ~p.input_eof
        THEN [pd |-> p, ev |-> Ev("WantData")]
        ELSE IF ~r.ok THEN [pd |-> r.pd, ev |-> Err("Io")]
        ELSE [pd |-> r.pd, ev |-> Ev("EndRecord")]

\* PushDecoder::get_event: [pd, ev]
\* VecDeque::drain panics when the end of the range is past the length of
\* the deque, and get_mut of the decompressor is unreachable!() on the
\* PushDecoder::None a failed restart has left; a panic is reported as the
\* event Err("Panic").
get_event(fmt, p, slice0_len) ==
    LET q == [drain(p, p.buf_output_reference_len) EXCEPT
                !.buf_output_reference_len = 0]
    IN  CASE p.decompressor.codec.phase = "none" ->
               [pd |-> p, ev |-> Err("Panic")]
          [] p.buf_output_reference_len > Len(decoded(p)) ->
               [pd |-> p, ev |-> Err("Panic")]
          [] q.state = "PendingHeader" -> [pd |-> q, ev |-> Ev("Ready")]
          [] q.state = "Header" -> process_header(q)
          [] q.state = "Block" -> process_block(q, Min(slice0_len, Len(decoded(q))))
          [] q.state = "RecordBoundary" -> process_record_boundary(q)
          [] q.state = "EndOfSegment" -> process_end_of_segment(fmt, q)
          [] OTHER -> [pd |-> q, ev |-> Ev("Finished")]

\* PushDecoder::reset: the state, the decoded bytes and the deferred input
\* are reset; every other field is left as it is.  [ok, pd]
reset(fmt, p) ==
    LET p1 == [p EXCEPT !.state = "PendingHeader",
                        !.decompressor.output = <<>>,
                        !.deferred_input_buf = <<>>]
        seg == start_next_segment(fmt, p1.decompressor)
    IN  [ok |-> seg.ok, pd |-> [p1 EXCEPT !.decompressor = seg.d]]

\* PushDecoder::write_eof (the write_eof of the decompressor holds no state
\* in the model)
write_eof(p) == [p EXCEPT !.input_eof = TRUE]

\* write that does not count the bytes the decompressor took.
Mutant_write(fmt, p, buf) ==
    LET p1 == IF p.state = "PendingHeader" THEN [p EXCEPT !.state = "Header"]
              ELSE p
        w == decompressor_write(fmt, p1.decompressor, buf)
    IN  IF buf = <<>> THEN [ok |-> TRUE, n |-> 0, pd |-> p]
        ELSE IF ~w.ok THEN [ok |-> FALSE, n |-> 0, pd |-> p1]
        ELSE IF w.n # 0
        THEN [ok |-> TRUE, n |-> w.n, pd |-> [p1 EXCEPT !.decompressor = w.d]]
        ELSE [ok |-> TRUE, n |-> Len(buf),
              pd |-> [p1 EXCEPT !.decompressor_eof = TRUE,
                                !.deferred_input_buf = @ \o buf]]

\* <PushDecoder as Write>::write: [ok, n, pd]
write(fmt, p, buf) ==
    LET p1 == IF p.state = "PendingHeader" THEN [p EXCEPT !.state = "Header"]
              ELSE p
        w == decompressor_write(fmt, p1.decompressor, buf)
    IN  IF buf = <<>> THEN [ok |-> TRUE, n |-> 0, pd |-> p]
        ELSE IF ~w.ok THEN [ok |-> FALSE, n |-> 0, pd |-> p1]
        ELSE IF w.n # 0
        THEN [ok |-> TRUE, n |-> w.n,
              pd |-> [p1 EXCEPT !.decompressor = w.d,
                                !.bytes_written_decoder = @ + w.n]]
        ELSE [ok |-> TRUE, n |-> Len(buf),
              pd |-> [p1 EXCEPT !.decompressor_eof = TRUE,
                                !.deferred_input_buf = @ \o buf]]

\* Write::write_all on the PushDecoder: write until buf is taken.  [ok, pd]
RECURSIVE write_all(_, _, _)
write_all(fmt, p, buf) ==
    LET w == write(fmt, p, buf)
    IN  IF buf = <<>> THEN [ok |-> TRUE, pd |-> p]
        ELSE IF ~w.ok THEN [ok |-> FALSE, pd |-> w.pd]
        ELSE write_all(fmt, w.pd, SubSeq(buf, w.n + 1, Len(buf)))

----------------------------------------------------------------------------
(* warc/encode.rs: Encoder.  output is the bytes handed to the BufWriter   *)
(* over the Compressor, which takes a small buffer whole; compression is   *)
(* config.compression; cuts holds, for each segment the Compressor has     *)
(* closed, the length of output at that time.  Next to the fields of the   *)
(* code the record keeps, for the record that is written: header_end, the  *)
(* length of output after its header; supplied, the bytes given to write;  *)
(* calls, the number of calls of write; records, the number of headers     *)
(* written.                                                                *)

\* Encoder::new with config.compression = compression
Encoder_with(compression) ==
    [state |-> "Header", length |-> 0, written |-> 0, output |-> <<>>,
     header_end |-> 0, supplied |-> 0, calls |-> 0, records |-> 0,
     compression |-> compression, cuts |-> <<>>]

Encoder_new == Encoder_with("Identity")

\* Compressor::restart_stream: a multistream codec is finished, which closes
\* its segment, and a new one is created over the same destination.
restart_stream(e) ==
    IF supports_concatenation(e.compression)
    THEN [e EXCEPT !.cuts = Append(@, Len(e.output))]
    ELSE e

\* Encoder::write_header: [ok, err, enc].  The header is serialized before
\* its Content-Length is read.
write_header(e, header) ==
    LET e1 == [e EXCEPT !.output = @ \o serialize(header)]
        length == content_length(header)
    IN  IF ~validate(header) THEN [ok |-> FALSE, err |-> "Parse", enc |-> e]
        ELSE IF length < 0
        THEN [ok |-> FALSE, err |-> "InvalidContentLength", enc |-> e1]
        ELSE [ok |-> TRUE, err |-> "None",
              enc |-> [e1 EXCEPT !.state = "Block", !.length = length,
                                 !.written = 0,
                                 !.header_end = Len(e1.output),
                                 !.supplied = 0, !.calls = 0,
                                 !.records = @ + 1]]

\* Encoder::write_finish_block
write_finish_block(e) == restart_stream([e EXCEPT !.output = @ \o CRLF \o CRLF])

\* Encoder::write_block_impl: [n, enc]
write_block_impl(e, buf) ==
    LET remain_length == e.length - e.written
        buf_upper == Min(Len(buf), remain_length)
        write_length == buf_upper
        e1 == [e EXCEPT !.output = @ \o SubSeq(buf, 1, buf_upper),
                        !.written = @ + write_length,
                        !.supplied = @ + Len(buf),
                        !.calls = @ + 1]
    IN  [n |-> write_length,
         enc |-> IF e1.length = e1.written THEN write_finish_block(e1) ELSE e1]

\* Write::write_all on the encoder: write until buf is taken; a write that
\* takes nothing is the error WriteZero.  [ok, err, enc]
RECURSIVE Encoder_write_all(_, _)
Encoder_write_all(e, buf) ==
    LET w == write_block_impl(e, buf)
    IN  IF buf = <<>> THEN [ok |-> TRUE, err |-> "None", enc |-> e]
        ELSE IF w.n = 0 THEN [ok |-> FALSE, err |-> "WriteZero", enc |-> w.enc]
        ELSE Encoder_write_all(w.enc, SubSeq(buf, w.n + 1, Len(buf)))

\* finish_block that does not compare the lengths
Mutant_finish_block(e) ==
    [ok |-> TRUE, err |-> "None", enc |-> [e EXCEPT !.state = "Header"]]

\* Encoder::finish_block: [ok, err, enc]
finish_block(e) ==
    IF e.length # e.written
    THEN [ok |-> FALSE, err |-> "ContentLengthMismatch", enc |-> e]
    ELSE [ok |-> TRUE, err |-> "None", enc |-> [e EXCEPT !.state = "Header"]]

----------------------------------------------------------------------------
(* The files that are decoded *)

MaxChunk == 3       \* largest number of bytes handed over by one write / read
MaxBufLen == 2      \* largest value given to set_max_buffer_len
MaxSlice == 2       \* largest first slice of a VecDeque that is split in two
CoarseChunk == 20   \* bytes handed over by one write of the one-member gzip file

VersionBytes == <<"W", "A", "R", "C", "/", "1", ".", "1">>

\* The header "WARC/1.1\r\nContent-Length: <n>\r\n\r\n"
MkHeader(n) ==
    VersionBytes \o CRLF \o ContentLengthName \o <<":", SP>> \o to_string(n)
        \o CRLF \o CRLF

HelloWorld == <<"H", "e", "l", "l", "o", SP, "w", "o", "r", "l", "d", "!">>

Rec(block) == [header |-> MkHeader(Len(block)), block |-> block]

RecordBytes(r) == r.header \o r.block \o CRLF \o CRLF

GzMember(data) == GzMagic \o data \o <<GzEos>> \o GzTrailer

RECURSIVE ConcatRecords(_)
ConcatRecords(rs) ==
    IF rs = <<>> THEN <<>> ELSE RecordBytes(rs[1]) \o ConcatRecords(Tail(rs))

RECURSIVE ConcatMembers(_)
ConcatMembers(rs) ==
    IF rs = <<>> THEN <<>>
    ELSE GzMember(RecordBytes(rs[1])) \o ConcatMembers(Tail(rs))

\* The raw offset of the first byte of each record (identity) or of its
\* member (gzip, one record per member).
RECURSIVE Offsets(_, _, _)
Offsets(rs, at, extra) ==
    IF rs = <<>> THEN <<>>
    ELSE <<at>> \o Offsets(Tail(rs), at + Len(RecordBytes(rs[1])) + extra, extra)

\* A file: its format, its raw bytes, the records it was made of (the last
\* one cut short when cut > 0 bytes are missing at the end), whether every
\* record is whole, and whether it is compressed one record per member.
IdentityFile(rs, cut, tail) ==
    [format |-> "Identity",
     bytes |-> SubSeq(ConcatRecords(rs), 1, Len(ConcatRecords(rs)) - cut) \o tail,
     records |-> rs,
     offsets |-> Offsets(rs, 0, 0),
     complete |-> cut = 0 /\ tail = <<>>,
     rat |-> TRUE]

GzipRatFile(rs) ==
    [format |-> "Gzip",
     bytes |-> ConcatMembers(rs),
     records |-> rs,
     offsets |-> Offsets(rs, 0, Len(GzMagic) + 1 + Len(GzTrailer)),
     complete |-> TRUE,
     rat |-> TRUE]

GzipOneMemberFile(rs) ==
    [format |-> "Gzip",
     bytes |-> GzMember(ConcatRecords(rs)),
     records |-> rs,
     offsets |-> <<>>,
     complete |-> TRUE,
     rat |-> FALSE]

Files ==
    { IdentityFile(<<Rec(HelloWorld), Rec(<<>>)>>, 0, <<>>),
      IdentityFile(<<>>, 0, <<>>),
      IdentityFile(<<Rec(<<"a", "b">>)>>, 0, <<>>),
      IdentityFile(<<Rec(<<"a", "b">>)>>, 4, <<>>),
      IdentityFile(<<Rec(<<"a", "b">>)>>, 2, <<>>),
      IdentityFile(<<Rec(<<"a", "b">>)>>, 2, <<"X", "Y">>),
      IdentityFile(<<>>, 0, <<"C", "D", "X", CR, LF>>),
      IdentityFile(<<>>, 0, <<"C", "D", "X", CR, LF, CR, LF>>),
      IdentityFile(<<>>, 0, GzMagic \o <<"a", "b", "c">>),
      IdentityFile(<<>>, 0, GzMagic \o <<LF, LF>>),
      IdentityFile(<<>>, 0, ZstdMagic \o <<"a">>),
      GzipRatFile(<<Rec(<<"a", "b">>), Rec(<<>>)>>),
      GzipOneMemberFile(<<Rec(<<"a">>), Rec(<<>>), Rec(<<"b">>)>>) }

\* Files that end in the middle of a record: in the header, in the block
\* and in the record boundary
TruncatedFiles ==
    { IdentityFile(<<Rec(<<"a", "b">>)>>, 25, <<>>),
      IdentityFile(<<Rec(<<"a", "b">>)>>, 5, <<>>),
      IdentityFile(<<Rec(<<"a", "b">>)>>, 1, <<>>) }

\* The file that is being decoded
File ==
    CHOOSE f \in Files \cup TruncatedFiles :
        f.bytes = stream /\ f.format = format

IsPrefix(a, b) == Len(a) <= Len(b) /\ SubSeq(b, 1, Len(a)) = a

----------------------------------------------------------------------------
(* The observer of the events of the push decoder: phase is "idle" between *)
(* records, "open" from a Header to its EndRecord, "finished" after        *)
(* Finished, "bad" once an event came out of order.                        *)

ObsInit ==
    [phase |-> "idle", recno |-> 0, n |-> 0, got |-> <<>>, rbps |-> <<>>]

Observe(o, ev, p) ==
    LET o1 == o
    IN  CASE ev.kind = "Header" ->
               IF o.phase = "idle"
               THEN [o1 EXCEPT !.phase = "open", !.recno = @ + 1,
                               !.n = content_length(ev.header), !.got = <<>>,
                               !.rbps = Append(@, p.record_boundary_position)]
               ELSE [o1 EXCEPT !.phase = "bad"]
          [] ev.kind = "BlockData" ->
               IF o.phase = "open" THEN [o1 EXCEPT !.got = @ \o ev.data]
               ELSE [o1 EXCEPT !.phase = "bad"]
          [] ev.kind = "EndRecord" ->
               IF o.phase = "open" THEN [o1 EXCEPT !.phase = "idle"]
               ELSE [o1 EXCEPT !.phase = "bad"]
          [] ev.kind = "Finished" ->
               IF o.phase \in {"idle", "finished"}
               THEN [o1 EXCEPT !.phase = "finished"]
               ELSE [o1 EXCEPT !.phase = "bad"]
          [] OTHER -> o1

----------------------------------------------------------------------------
(* The push decoder driven by a caller: writes of any chunking, write_eof, *)
(* get_event, set_max_buffer_len.                                          *)

NoDecoder == [state |-> "Header", is_end |-> FALSE, op |-> "idle"]
NoCall ==
    [op |-> "none", ok |-> TRUE, err |-> "None", value |-> 0, flag |-> FALSE,
     remain |-> FALSE]

InitPush ==
    /\ \E f \in Files : stream = f.bytes /\ format = f.format
    /\ pd = PushDecoder_new
    /\ wpos = 0
    /\ event = NoEvent
    /\ obs = ObsInit
    /\ dec = NoDecoder
    /\ enc = Encoder_new
    /\ call = NoCall

\* The caller goes on until an error is returned or Finished is reported.
Running == event.kind \notin {"Err", "Finished"}

\* write_all of the next k bytes of the file
Write(k) ==
    LET w == write_all(format, pd, SubSeq(stream, wpos + 1, wpos + k))
    IN  /\ Running
        /\ ~pd.input_eof
        /\ wpos + k <= Len(stream)
        /\ pd' = w.pd
        /\ wpos' = wpos + k
        /\ event' = IF w.ok THEN event ELSE Err("Io")
        /\ UNCHANGED <<stream, format, obs, dec, enc, call>>

WriteEof ==
    /\ Running
    /\ ~pd.input_eof
    /\ pd' = write_eof(pd)
    /\ UNCHANGED <<stream, format, wpos, event, obs, dec, enc, call>>

GetEvent(slice0_len) ==
    LET r == get_event(format, pd, slice0_len)
    IN  /\ Running
        /\ pd' = r.pd
        /\ event' = r.ev
        /\ obs' = Observe(obs, r.ev, r.pd)
        /\ UNCHANGED <<stream, format, wpos, dec, enc, call>>

SetMaxBufferLen(value) ==
    /\ Running
    /\ pd' = set_max_buffer_len(pd, value)
    /\ UNCHANGED <<stream, format, wpos, event, obs, dec, enc, call>>

\* The lengths the first slice of a VecDeque holding buf can have: the whole
\* of it, or a short first part when the ring buffer wraps.
Slice0Lens(buf) == (1..Min(MaxSlice, Len(buf))) \cup {Len(buf)}

\* The numbers of bytes one write hands over: any small number, or all that
\* is left of the file.  (The gzip file that holds several records in one
\* member is handed over in coarse chunks only.)
ChunkLens ==
    {k \in (IF File.rat THEN 1..MaxChunk ELSE {CoarseChunk})
                \cup {Len(stream) - wpos} : k > 0 /\ wpos + k <= Len(stream)}

NextPush ==
    \/ \E k \in ChunkLens : Write(k)
    \/ WriteEof
    \/ \E s \in Slice0Lens(decoded(pd)) : GetEvent(s)
    \/ \E v \in 0..MaxBufLen : SetMaxBufferLen(v)

SpecPush == InitPush /\ [][NextPush]_vars

----------------------------------------------------------------------------
(* Properties of the push decoder *)

\* C1: the events of the push decoder other than Ready, WantData and
\* Continue come as repetitions of Header, BlockData*, EndRecord, and
\* Finished comes only between records, after the EndRecord of the last
\* record that was started: the observer never sees an event out of order.
C1_EventOrder == obs.phase # "bad"

C1_Witness ==
    /\ event.kind = "Finished"
    /\ obs.phase = "finished"
    /\ obs.recno = 2
    /\ obs.got = <<>>

\* C2: the BlockData slices between a Header that declares N bytes and its
\* EndRecord are, put together, a prefix of the N bytes that follow the
\* header in the file, and at EndRecord they are exactly those N bytes,
\* whatever the chunking of the writes and the value of set_max_buffer_len.
C2_BlockData ==
    obs.recno > 0 /\ obs.phase # "bad" =>
        LET block == File.records[obs.recno].block
        IN  /\ IsPrefix(obs.got, block)
            /\ event.kind = "EndRecord" =>
                  /\ obs.got = block
                  /\ Len(obs.got) = obs.n

C2_Witness ==
    /\ event.kind = "EndRecord"
    /\ obs.recno = 1
    /\ obs.got = HelloWorld
    /\ obs.n = 12
    /\ pd.buf_output_max_len = 1

StrictlyIncreasing(xs) == \A k \in 1..(Len(xs) - 1) : xs[k] < xs[k + 1]
NonDecreasing(xs) == \A k \in 1..(Len(xs) - 1) : xs[k] <= xs[k + 1]

\* C7 as stated: record_boundary_position is strictly increasing across
\* successive records, in identity and compressed files alike.
C7_StrictlyIncreasing == StrictlyIncreasing(obs.rbps)

\* C7 as amended: record_boundary_position is strictly increasing across
\* successive records in identity files and in compressed files with one
\* record per member; in a compressed file that holds several records in
\* one member it is non-decreasing only.
C7_IncreasingRecordAtTime ==
    /\ File.rat => StrictlyIncreasing(obs.rbps)
    /\ NonDecreasing(obs.rbps)

C7_Witness ==
    /\ format = "Gzip"
    /\ File.rat
    /\ Len(obs.rbps) = 2
    /\ event.kind = "EndRecord"

\* The bytes written so far are zero or more whole records of the file.
WrittenWholeRecords ==
    /\ File.complete
    /\ wpos \in {0, Len(stream)} \cup Range(File.offsets)

\* A get_event call that reports neither an event of a record nor Finished
\* and leaves the decoder as it was: with no more writes every later call
\* does the same.
Stuck ==
    LET r == get_event(format, pd, Len(decoded(pd)))
    IN  r.pd = pd /\ r.ev.kind \in {"Ready", "WantData"}

\* C8: after write_eof, with the bytes written being zero or more whole
\* records and no more writes, repeated get_event calls get to Finished:
\* no call before Finished leaves the decoder waiting as it was.
C8_FinishedAfterEof ==
    pd.input_eof /\ WrittenWholeRecords /\ Running => ~Stuck

\* C9: when the file ends right after the block of its last record or
\* after a part of the boundary, get_event after write_eof fails with
\* InvalidRecordBoundary.
C9_TruncatedBoundary ==
    /\ pd.input_eof
    /\ wpos = Len(stream)
    /\ pd.state = "RecordBoundary"
    /\ Len(decoded(pd)) < 4
    => get_event(format, pd, 1).ev = Err("InvalidRecordBoundary")

\* C14: when the input does not start with a WARC header, an error of the
\* header decoding is UnknownHeader when the first 5 bytes are not "WARC/"
\* and no compression magic, and UnexpectedCompression when the input
\* starts with the gzip or the zstd magic, whatever bytes follow; it is
\* returned only when the buffered bytes are enough to decide.
C14_HeaderDetection ==
    File.records = <<>> /\ event.kind = "Err" =>
        /\ detect_header(decoded(pd)) # "NotSure"
        /\ event.err =
              IF starts_with(stream, GzMagic) \/ starts_with(stream, ZstdMagic)
              THEN "UnexpectedCompression"
              ELSE "UnknownHeader"

----------------------------------------------------------------------------
(* warc/decode.rs: Decoder, the pull decoder over a source.  wpos is the   *)
(* number of bytes read from the source (logical_position).  A call that   *)
(* loops takes one step per turn of its loop: dec.op names the call that   *)
(* is under way, call the last call that returned and what it returned.    *)

Returned(op) == [NoCall EXCEPT !.op = op]
Failed(op, err) == [NoCall EXCEPT !.op = op, !.ok = FALSE, !.err = err]

\* The numbers of bytes one read of the source can give: 0 at its end.
ReadLens == IF wpos = Len(stream) THEN {0} ELSE ChunkLens

\* Decoder::read_into_push_decoder with a read of n bytes: [ok, pd]
read_into_push_decoder(p, n) ==
    LET w == write_all(format, p, SubSeq(stream, wpos + 1, wpos + n))
    IN  IF ~w.ok THEN [ok |-> FALSE, pd |-> w.pd]
        ELSE [ok |-> TRUE, pd |-> IF n = 0 THEN write_eof(w.pd) ELSE w.pd]

\* Input bytes remain: unread in the source, or buffered in the decoder.
BytesRemain ==
    \/ wpos < Len(stream)
    \/ decoded(pd) # <<>>
    \/ pd.deferred_input_buf # <<>>

\* Decoder::has_next_record
HasNextRecord(n) ==
    \E r \in {read_into_push_decoder(pd, n)} :
        /\ dec.state = "Header" /\ dec.op = "idle" /\ call.ok
        /\ IF is_finished(pd)
           THEN /\ call' = [Returned("has_next_record") EXCEPT
                              !.flag = FALSE, !.remain = BytesRemain]
                /\ UNCHANGED <<pd, wpos>>
           ELSE IF is_ready(pd)
           THEN /\ pd' = r.pd
                /\ wpos' = wpos + n
                /\ call' = IF ~r.ok THEN Failed("has_next_record", "Io")
                           ELSE [Returned("has_next_record") EXCEPT
                                   !.flag = ~is_ready(r.pd),
                                   !.remain = BytesRemain]
           ELSE /\ call' = [Returned("has_next_record") EXCEPT
                              !.flag = ~is_ready(pd), !.remain = BytesRemain]
                /\ UNCHANGED <<pd, wpos>>
        /\ UNCHANGED <<stream, format, event, obs, dec, enc>>

\* One turn of the loop of Decoder::read_header
ReadHeader(n, slice0_len) ==
    \E g \in {get_event(format, pd, slice0_len)} :
    \E r \in {read_into_push_decoder(g.pd, n)} :
    LET more == [dec EXCEPT !.op = "read_header"]
        done == [dec EXCEPT !.op = "idle"]
    IN  /\ dec.state = "Header" /\ dec.op \in {"idle", "read_header"} /\ call.ok
        /\ event' = g.ev
        /\ obs' = Observe(obs, g.ev, g.pd)
        /\ CASE g.ev.kind \in {"Ready", "WantData"} ->
                  /\ pd' = r.pd
                  /\ wpos' = wpos + n
                  /\ IF r.ok THEN dec' = more /\ UNCHANGED call
                     ELSE dec' = done /\ call' = Failed("read_header", "Io")
             [] g.ev.kind = "Finished" ->
                  /\ pd' = g.pd
                  /\ dec' = done
                  /\ call' = Failed("read_header", "InvalidInput")
                  /\ UNCHANGED wpos
             [] g.ev.kind = "Continue" ->
                  /\ pd' = g.pd
                  /\ dec' = more
                  /\ UNCHANGED <<wpos, call>>
             [] g.ev.kind = "Header" ->
                  /\ pd' = g.pd
                  /\ dec' = [state |-> "Block", is_end |-> FALSE, op |-> "idle"]
                  /\ call' = Returned("read_header")
                  /\ UNCHANGED wpos
             [] g.ev.kind = "Err" ->
                  /\ pd' = g.pd
                  /\ dec' = done
                  /\ call' = Failed("read_header", g.ev.err)
                  /\ UNCHANGED wpos
             [] OTHER ->
                  /\ pd' = g.pd
                  /\ dec' = done
                  /\ call' = Failed("read_header", "unreachable")
                  /\ UNCHANGED wpos
        /\ UNCHANGED <<stream, format, enc>>

\* Decoder::read_block_impl with a buffer of len bytes: the checks at its
\* start and one turn of its loop
Read(len, n, slice0_len) ==
    \E p0 \in {IF dec.op = "idle" THEN set_max_buffer_len(pd, len) ELSE pd} :
    \E g \in {get_event(format, p0, slice0_len)} :
    \E r \in {read_into_push_decoder(g.pd, n)} :
    LET more == [dec EXCEPT !.op = "read"]
        done == [dec EXCEPT !.op = "idle"]
    IN  /\ dec.state = "Block" /\ dec.op \in {"idle", "read"} /\ call.ok
        /\ IF dec.op = "idle" /\ (dec.is_end \/ len = 0)
           THEN /\ call' = Returned("read")
                /\ UNCHANGED <<pd, wpos, event, obs, dec>>
           ELSE /\ event' = g.ev
                /\ obs' = Observe(obs, g.ev, g.pd)
                /\ CASE g.ev.kind = "WantData" ->
                          /\ pd' = r.pd
                          /\ wpos' = wpos + n
                          /\ IF r.ok THEN dec' = more /\ UNCHANGED call
                             ELSE dec' = done /\ call' = Failed("read", "Io")
                     [] g.ev.kind = "Continue" ->
                          /\ pd' = g.pd
                          /\ dec' = more
                          /\ UNCHANGED <<wpos, call>>
                     [] g.ev.kind = "BlockData" ->
                          /\ pd' = g.pd
                          /\ dec' = done
                          /\ call' = [Returned("read") EXCEPT
                                        !.value = Min(len, Len(g.ev.data))]
                          /\ UNCHANGED wpos
                     [] g.ev.kind = "EndRecord" ->
                          /\ pd' = g.pd
                          /\ dec' = [done EXCEPT !.is_end = TRUE]
                          /\ call' = Returned("read")
                          /\ UNCHANGED wpos
                     [] g.ev.kind = "Err" ->
                          /\ pd' = g.pd
                          /\ dec' = done
                          /\ call' = Failed("read", g.ev.err)
                          /\ UNCHANGED wpos
                     [] OTHER ->
                          /\ pd' = g.pd
                          /\ dec' = done
                          /\ call' = Failed("read", "unreachable")
                          /\ UNCHANGED wpos
        /\ UNCHANGED <<stream, format, enc>>

\* Decoder::finish_block: the start of read_remaining_block and one turn of
\* its loop
FinishBlock(n, slice0_len) ==
    \E p0 \in {IF dec.op = "idle" THEN set_max_buffer_len(pd, BUFFER_LENGTH)
                ELSE pd} :
    \E g \in {get_event(format, p0, slice0_len)} :
    \E r \in {read_into_push_decoder(g.pd, n)} :
    LET more == [dec EXCEPT !.op = "finish_block"]
        done == [dec EXCEPT !.op = "idle"]
        header == [state |-> "Header", is_end |-> FALSE, op |-> "idle"]
    IN  /\ dec.state = "Block" /\ dec.op \in {"idle", "finish_block"} /\ call.ok
        /\ IF dec.is_end
           THEN /\ pd' = p0
                /\ dec' = header
                /\ call' = Returned("finish_block")
                /\ UNCHANGED <<wpos, event, obs>>
           ELSE /\ event' = g.ev
                /\ obs' = Observe(obs, g.ev, g.pd)
                /\ CASE g.ev.kind = "WantData" ->
                          /\ pd' = r.pd
                          /\ wpos' = wpos + n
                          /\ IF ~r.ok
                             THEN dec' = done /\ call' = Failed("finish_block", "Io")
                             ELSE IF n = 0
                             THEN /\ dec' = done
                                  /\ call' = Failed("finish_block", "UnexpectedEof")
                             ELSE dec' = more /\ UNCHANGED call
                     [] g.ev.kind \in {"Continue", "BlockData"} ->
                          /\ pd' = g.pd
                          /\ dec' = more
                          /\ UNCHANGED <<wpos, call>>
                     [] g.ev.kind = "EndRecord" ->
                          /\ pd' = g.pd
                          /\ dec' = header
                          /\ call' = Returned("finish_block")
                          /\ UNCHANGED wpos
                     [] g.ev.kind = "Err" ->
                          /\ pd' = g.pd
                          /\ dec' = done
                          /\ call' = Failed("finish_block", g.ev.err)
                          /\ UNCHANGED wpos
                     [] OTHER ->
                          /\ pd' = g.pd
                          /\ dec' = done
                          /\ call' = Failed("finish_block", "unreachable")
                          /\ UNCHANGED wpos
        /\ UNCHANGED <<stream, format, enc>>

NextPull ==
    \/ \E n \in ReadLens : HasNextRecord(n)
    \/ \E n \in ReadLens, s \in Slice0Lens(decoded(pd)) : ReadHeader(n, s)
    \/ \E len \in 0..MaxBufLen, n \in ReadLens, s \in Slice0Lens(decoded(pd)) :
          Read(len, n, s)
    \/ \E n \in ReadLens, s \in Slice0Lens(decoded(pd)) : FinishBlock(n, s)

SpecPull == InitPush /\ [][NextPull]_vars

\* C10: has_next_record returns true exactly when input bytes remain,
\* buffered in the decoder or unread in the source: true after the
\* finish_block of a record that another record follows, false after the
\* last record.
C10_HasNextRecord ==
    call.op = "has_next_record" /\ call.ok => call.flag = call.remain

\* has_next_record has returned true after the first record was finished and
\* false after the last one
C10_Witness ==
    /\ call.op = "has_next_record" /\ call.ok
    /\ ~call.flag
    /\ obs.recno = 2
    /\ obs.phase = "idle"

\* C11: on a file of whole records finish_block, called after any prefix
\* of the block was read (nothing included), succeeds; the header the next
\* read_header returns is the header of the following record of the file
\* and the bytes delivered for it are bytes of its block.
C11_FinishBlockAnyPrefix ==
    File.complete =>
        /\ call.op = "finish_block" => call.ok
        /\ event.kind = "Header" =>
              event.header = WarcHeader_parse(File.records[obs.recno].header)
        /\ obs.recno > 0 => IsPrefix(obs.got, File.records[obs.recno].block)

----------------------------------------------------------------------------
(* The encoder driven by a caller *)

MaxLength == 2      \* largest Content-Length of a header that is written
MaxBuf == 3         \* longest buffer given to write / write_all
MaxCalls == 3       \* most calls of write / write_all for one record
MaxRecords == 2     \* most headers written

HeaderOf(n) ==
    [ok |-> TRUE, version |-> VersionBytes,
     fields |-> <<[name |-> ContentLengthName, value |-> to_string(n)]>>]

\* The headers given to write_header: one for each Content-Length, one with
\* no Content-Length, one with a field name that is no token.
EncHeaders ==
    {HeaderOf(n) : n \in 0..MaxLength}
        \cup {[ok |-> TRUE, version |-> VersionBytes, fields |-> <<>>],
              [ok |-> TRUE, version |-> VersionBytes,
               fields |-> <<[name |-> <<"a", SP, "b">>, value |-> <<"1">>]>>]}

Letters == <<"a", "b", "c", "d", "e", "f", "g", "h">>

\* The buffers given to write / write_all
EncBufs == {SubSeq(Letters, 1, n) : n \in 0..MaxBuf}

EncRunning == call.ok /\ call.op # "finish"

EncWriteHeader(h) ==
    LET r == write_header(enc, h)
    IN  /\ EncRunning
        /\ enc.state = "Header"
        /\ enc.records < MaxRecords
        /\ enc' = r.enc
        /\ call' = IF r.ok THEN Returned("write_header")
                   ELSE Failed("write_header", r.err)
        /\ UNCHANGED <<stream, format, pd, wpos, event, obs, dec>>

EncWrite(buf) ==
    LET r == write_block_impl(enc, buf)
    IN  /\ EncRunning
        /\ enc.state = "Block"
        /\ enc.calls < MaxCalls
        /\ enc' = r.enc
        /\ call' = [Returned("write") EXCEPT !.value = r.n]
        /\ UNCHANGED <<stream, format, pd, wpos, event, obs, dec>>

EncWriteAll(buf) ==
    LET r == Encoder_write_all(enc, buf)
    IN  /\ EncRunning
        /\ enc.state = "Block"
        /\ enc.calls < MaxCalls
        /\ enc' = r.enc
        /\ call' = IF r.ok THEN Returned("write_all")
                   ELSE Failed("write_all", r.err)
        /\ UNCHANGED <<stream, format, pd, wpos, event, obs, dec>>

EncFinishBlock ==
    LET r == finish_block(enc)
    IN  /\ EncRunning
        /\ enc.state = "Block"
        /\ enc' = r.enc
        /\ call' = IF r.ok THEN Returned("finish_block")
                   ELSE Failed("finish_block", r.err)
        /\ UNCHANGED <<stream, format, pd, wpos, event, obs, dec>>

\* Encoder::finish
EncFinish ==
    /\ EncRunning
    /\ enc.state = "Header"
    /\ call' = Returned("finish")
    /\ UNCHANGED <<stream, format, pd, wpos, event, obs, dec, enc>>

InitEnc ==
    /\ stream = <<>>
    /\ format \in {"Identity", "Gzip"}
    /\ pd = PushDecoder_new
    /\ wpos = 0
    /\ event = NoEvent
    /\ obs = ObsInit
    /\ dec = NoDecoder
    /\ enc = Encoder_with(format)
    /\ call = NoCall

NextEnc ==
    \/ \E h \in EncHeaders : EncWriteHeader(h)
    \/ \E buf \in EncBufs : EncWrite(buf)
    \/ \E buf \in EncBufs : EncWriteAll(buf)
    \/ EncFinishBlock
    \/ EncFinish

SpecEnc == InitEnc /\ [][NextEnc]_vars

\* The bytes written for the record after its header
AfterHeader == SubSeq(enc.output, enc.header_end + 1, Len(enc.output))

\* Whether "\r\n\r\n" was written after the header of the record
BoundaryWritten ==
    \E i \in 1..(Len(AfterHeader) - 3) :
        SubSeq(AfterHeader, i, i + 3) = CRLF \o CRLF

\* C3 as stated: after write_header with Content-Length N, when the bytes
\* given to write before finish_block are M # N in all, fewer or more,
\* finish_block fails with ContentLengthMismatch and no "\r\n\r\n" is written.
C3_MismatchFails ==
    call.op = "finish_block" /\ enc.supplied # enc.length =>
        /\ ~call.ok /\ call.err = "ContentLengthMismatch"
        /\ ~BoundaryWritten

\* C3 as amended: when the bytes given to write before finish_block are
\* fewer than N, finish_block fails with ContentLengthMismatch and no
\* "\r\n\r\n" is written; when they are more than N, write takes the first
\* N of them only, the boundary is written and finish_block succeeds.
C3_FewerFails ==
    call.op = "finish_block" =>
        /\ enc.supplied < enc.length =>
              /\ ~call.ok /\ call.err = "ContentLengthMismatch"
              /\ ~BoundaryWritten
        /\ enc.supplied > enc.length =>
              /\ call.ok
              /\ enc.written = enc.length
              /\ BoundaryWritten

C3_Witness ==
    /\ call.op = "finish_block"
    /\ ~call.ok
    /\ enc.length = 2
    /\ enc.supplied = 1
    /\ enc.calls = 1

\* C4: with Content-Length 0, write_header followed by finish_block, with
\* no call of write between them (write_all of an empty slice makes none),
\* succeeds and the output holds "\r\n\r\n" right after the header.
C4_EmptyBlock ==
    call.op = "finish_block" /\ enc.length = 0 /\ enc.calls = 0 =>
        /\ call.ok
        /\ AfterHeader = CRLF \o CRLF

\* C12: with a format that supports concatenation the encoder has closed
\* one segment for each record when finish_block returns, the zero-length
\* records included, and the last one right after the boundary of the
\* record, so that no byte of the next header falls into it.
C12_SegmentPerRecord ==
    /\ supports_concatenation(enc.compression)
    /\ call.op = "finish_block" /\ call.ok
    => /\ Len(enc.cuts) = enc.records
       /\ enc.cuts[Len(enc.cuts)] = Len(enc.output)

----------------------------------------------------------------------------
(* Decode, then encode: every event of the push decoder that reads an      *)
(* identity file is handed to an encoder with the identity format.         *)

InitCopy ==
    /\ InitPush
    /\ format = "Identity"
    /\ File.complete

\* get_event, and the call of the encoder that the event asks for
CopyEvent(slice0_len) ==
    \E r \in {get_event(format, pd, slice0_len)} :
    \E h \in {write_header(enc, r.ev.header)} :
    \E w \in {Encoder_write_all(enc, r.ev.data)} :
    \E f \in {finish_block(enc)} :
        /\ Running /\ call.ok
        /\ pd' = r.pd
        /\ event' = r.ev
        /\ obs' = Observe(obs, r.ev, r.pd)
        /\ CASE r.ev.kind = "Header" ->
                  /\ enc' = h.enc
                  /\ call' = IF h.ok THEN Returned("write_header")
                             ELSE Failed("write_header", h.err)
             [] r.ev.kind = "BlockData" ->
                  /\ enc' = w.enc
                  /\ call' = IF w.ok THEN Returned("write_all")
                             ELSE Failed("write_all", w.err)
             [] r.ev.kind = "EndRecord" ->
                  /\ enc' = f.enc
                  /\ call' = IF f.ok THEN Returned("finish_block")
                             ELSE Failed("finish_block", f.err)
             [] OTHER -> UNCHANGED <<enc, call>>
        /\ UNCHANGED <<stream, format, wpos, dec>>

NextCopy ==
    \/ \E k \in ChunkLens : call.ok /\ Write(k)
    \/ call.ok /\ WriteEof
    \/ \E s \in Slice0Lens(decoded(pd)) : CopyEvent(s)

SpecCopy == InitCopy /\ [][NextCopy]_vars

\* The whole file was written to the decoder and every record of it has come
\* out and was handed to the encoder.
CopyDone ==
    /\ wpos = Len(stream)
    /\ decoded(pd) = <<>>
    /\ pd.state \in {"PendingHeader", "Finished"}
    /\ obs.recno = Len(File.records)
    /\ obs.phase \in {"idle", "finished"}

\* C5: decoding a valid identity file and encoding what was decoded gives
\* the file again, byte for byte.
C5_RoundTrip == CopyDone /\ call.ok => enc.output = stream

----------------------------------------------------------------------------
(* Headers at the length limit: identity files of one record with an empty *)
(* block whose header is MAX_HEADER_LENGTH bytes long or a little longer,  *)
(* written to the push decoder in chunks that end around the limit.        *)

MaxOver == 2        \* the longest header is MAX_HEADER_LENGTH + MaxOver bytes

\* A header of L bytes, the empty line included: the version line, a
\* Content-Length of 0, one field whose value fills what is left, and the
\* empty line.
BigHeader(L) ==
    LET lines == SubSeq(MkHeader(0), 1, Len(MkHeader(0)) - Len(CRLF))
        field == <<"X", ":", SP>>
    IN  lines \o field
            \o [i \in 1..(L - Len(lines) - Len(field) - 2 * Len(CRLF)) |-> "a"]
            \o CRLF \o CRLF

\* The record with that header and an empty block
BigRecord(L) == BigHeader(L) \o CRLF \o CRLF

\* The length of the header of the file that is decoded
HeaderLength == Len(stream) - Len(CRLF \o CRLF)

\* The positions of the file at which a write can end
CutPoints ==
    {Len(WarcTag), Len(stream)}
        \cup {MAX_HEADER_LENGTH + d : d \in (0 - 1)..MaxOver}

BigChunkLens == {c - wpos : c \in {c \in CutPoints : c > wpos}}

InitBig ==
    /\ \E d \in 0..MaxOver : stream = BigRecord(MAX_HEADER_LENGTH + d)
    /\ format = "Identity"
    /\ pd = PushDecoder_new
    /\ wpos = 0
    /\ event = NoEvent
    /\ obs = ObsInit
    /\ dec = NoDecoder
    /\ enc = Encoder_new
    /\ call = NoCall

NextBig ==
    \/ \E k \in BigChunkLens : Write(k)
    \/ WriteEof
    \/ GetEvent(Len(decoded(pd)))

SpecBig == InitBig /\ [][NextBig]_vars

\* C13: a header of exactly MAX_HEADER_LENGTH bytes, the empty line
\* included, is decoded without an error, and a header of one byte more is
\* never decoded: it fails with HeaderTooBig, however the input is split
\* across the writes.
C13_HeaderLimit ==
    /\ HeaderLength = MAX_HEADER_LENGTH => event.kind # "Err"
    /\ HeaderLength = MAX_HEADER_LENGTH + 1 =>
          /\ event.kind # "Header"
          /\ event.kind = "Err" => event.err = "HeaderTooBig"

----------------------------------------------------------------------------
(* compress.rs: Compressor and Decompressor (the pull decompressor over a  *)
(* BufRead).  In the specification of this section enc holds the           *)
(* Compressor, dec the Decompressor, stream the bytes the Compressor has   *)
(* given out, and obs the payloads written and the payloads read back.     *)
(* A Compressor is [format, dest, cur]: dest is the destination writer,    *)
(* cur the bytes given to the codec that is open.  A Decompressor is       *)
(* [format, source, pos, phase]: pos is the number of bytes consumed from  *)
(* the source, phase where the codec is in its member.                     *)

\* Compressor::new
Compressor_new(fmt) == [format |-> fmt, dest |-> <<>>, cur |-> <<>>]

\* Encoder::finish of compress.rs: the codec writes out what closes its stream
Encoder_finish(c) ==
    IF is_identity(c.format) THEN c.dest \o c.cur ELSE c.dest \o GzMember(c.cur)

\* impl Write for Compressor: write (the codec takes the whole buffer)
Compressor_write(c, buf) == [c EXCEPT !.cur = @ \o buf]

\* restart_stream that keeps the codec that is open
Mutant_Compressor_restart_stream(c) == c

\* Compressor::restart_stream
Compressor_restart_stream(c) ==
    IF supports_concatenation(c.format)
    THEN [c EXCEPT !.dest = Encoder_finish(c), !.cur = <<>>]
    ELSE c

\* Compressor::finish: the bytes of the destination writer
Compressor_finish(c) == Encoder_finish(c)

\* Decompressor::new
Decompressor_new(source, fmt) ==
    [format |-> fmt, source |-> source, pos |-> 0, phase |-> "header"]

\* impl Read for Decompressor: read with a buffer of n > 0 bytes, Gzip arm
\* (flate2::bufread::GzDecoder): [ok, data, d].  The header is parsed on the
\* first read; the read that finds the end of the deflate stream consumes
\* the trailer and returns 0 bytes, as every read after it does.
Decompressor_read(d, n) ==
    LET src == d.source
        at == IF d.phase = "header" THEN d.pos + Len(GzMagic) ELSE d.pos
        eos == TakeTill(src, at + 1, {GzEos})
        take == Min(n, eos - (at + 1))
        fail == [ok |-> FALSE, data |-> <<>>, d |-> d]
    IN  IF is_identity(d.format)
        THEN [ok |-> TRUE,
              data |-> SubSeq(src, d.pos + 1, Min(Len(src), d.pos + n)),
              d |-> [d EXCEPT !.pos = Min(Len(src), d.pos + n)]]
        ELSE IF d.phase = "end" THEN [ok |-> TRUE, data |-> <<>>, d |-> d]
        ELSE IF d.phase = "header"
                /\ SubSeq(src, d.pos + 1, Min(Len(src), at)) # GzMagic
        THEN fail
        ELSE IF take > 0
        THEN [ok |-> TRUE, data |-> SubSeq(src, at + 1, at + take),
              d |-> [d EXCEPT !.pos = at + take, !.phase = "body"]]
        ELSE IF eos + Len(GzTrailer) > Len(src) THEN fail
        ELSE [ok |-> TRUE, data |-> <<>>,
              d |-> [d EXCEPT !.pos = eos + Len(GzTrailer), !.phase = "end"]]

\* Decompressor::restart_stream: a new codec over the same source
Decompressor_restart_stream(d) == [d EXCEPT !.phase = "header"]

\* Decompressor::has_data_left: fill_buf of the source gives bytes
has_data_left(d) == d.pos < Len(d.source)

MaxPayloads == 3    \* most payloads written to one Compressor
MaxPayloadLen == 3  \* longest payload
MaxRead == 2        \* longest buffer given to a read of the Decompressor

\* The buffers given to write_all of the Compressor
CompBufs == {SubSeq(Letters, 1, n) : n \in 1..2}

\* obs.written: the payloads written, the last one open until finish;
\* obs.read: the payloads read back, the last one open until its end of
\* stream; obs.eos: the last read returned 0.
InitComp ==
    /\ stream = <<>>
    /\ format = "Gzip"
    /\ pd = PushDecoder_new
    /\ wpos = 0
    /\ event = NoEvent
    /\ obs = [written |-> <<<<>>>>, read |-> <<<<>>>>, eos |-> FALSE]
    /\ dec = NoDecoder
    /\ enc = Compressor_new(format)
    /\ call = NoCall

Compressing == call.op \in {"none", "write_all", "restart_stream"}
Decompressing == ~Compressing /\ call.ok

CompWriteAll(buf) ==
    /\ Compressing
    /\ Len(enc.cur) + Len(buf) <= MaxPayloadLen
    /\ enc' = Compressor_write(enc, buf)
    /\ obs' = [obs EXCEPT !.written[Len(obs.written)] = @ \o buf]
    /\ call' = Returned("write_all")
    /\ UNCHANGED <<stream, format, pd, wpos, event, dec>>

CompRestartStream ==
    /\ Compressing
    /\ Len(obs.written) < MaxPayloads
    /\ enc' = Compressor_restart_stream(enc)
    /\ obs' = [obs EXCEPT !.written = Append(@, <<>>)]
    /\ call' = Returned("restart_stream")
    /\ UNCHANGED <<stream, format, pd, wpos, event, dec>>

\* Compressor::finish, and Decompressor::new over what was written
CompFinish ==
    /\ Compressing
    /\ stream' = Compressor_finish(enc)
    /\ dec' = Decompressor_new(Compressor_finish(enc), format)
    /\ call' = Returned("finish")
    /\ UNCHANGED <<format, pd, wpos, event, obs, enc>>

\* One read of read_to_end
DecompRead(n) ==
    LET r == Decompressor_read(dec, n)
    IN  /\ Decompressing
        /\ ~obs.eos
        /\ dec' = r.d
        /\ obs' = [obs EXCEPT !.read[Len(obs.read)] = @ \o r.data,
                              !.eos = r.ok /\ r.data = <<>>]
        /\ call' = IF r.ok THEN [Returned("read") EXCEPT !.value = Len(r.data)]
                   ELSE Failed("read", "Io")
        /\ UNCHANGED <<stream, format, pd, wpos, event, enc>>

DecompHasDataLeft ==
    /\ Decompressing
    /\ obs.eos
    /\ call' = [Returned("has_data_left") EXCEPT !.flag = has_data_left(dec)]
    /\ UNCHANGED <<stream, format, pd, wpos, event, obs, dec, enc>>

\* Decompressor::restart_stream after a payload was read to its end
DecompRestartStream ==
    /\ Decompressing
    /\ obs.eos
    /\ Len(obs.read) <= MaxPayloads
    /\ dec' = Decompressor_restart_stream(dec)
    /\ obs' = [obs EXCEPT !.read = Append(@, <<>>), !.eos = FALSE]
    /\ call' = Returned("decompressor_restart_stream")
    /\ UNCHANGED <<stream, format, pd, wpos, event, enc>>

NextComp ==
    \/ \E buf \in CompBufs : CompWriteAll(buf)
    \/ CompRestartStream
    \/ CompFinish
    \/ \E n \in 1..MaxRead : DecompRead(n)
    \/ DecompHasDataLeft
    \/ DecompRestartStream

SpecComp == InitComp /\ [][NextComp]_vars

\* C15: the payloads written to a gzip Compressor with restart_stream
\* between them are read back in order by a Decompressor that reads each to
\* its end of stream and then calls restart_stream, and after the end of a
\* payload has_data_left is true for all payloads but the last.
C15_Multistream ==
    Decompressing /\ Len(obs.read) <= Len(obs.written) =>
        LET k == Len(obs.read)
        IN  /\ call.ok
            /\ IsPrefix(obs.read[k], obs.written[k])
            /\ \A i \in 1..(k - 1) : obs.read[i] = obs.written[i]
            /\ obs.eos => obs.read[k] = obs.written[k]
            /\ call.op = "has_data_left" =>
                  call.flag = (k < Len(obs.written))

\* Three payloads, the second one empty, were read back and has_data_left
\* has returned false after the last.
C15_Witness ==
    /\ call.op = "has_data_left" /\ ~call.flag
    /\ Len(obs.written) = 3
    /\ obs.read = obs.written
    /\ obs.written[2] = <<>>
    /\ obs.written[3] # <<>>

----------------------------------------------------------------------------
(* compress/zstd.rs, compress/zstd/encode.rs: the Zstandard encoder.       *)
(* A zstd frame is its magic, a two-byte frame header, the tokens of its   *)
(* blocks, the end of its last block and a checksum.  The codec with a     *)
(* dictionary writes a byte that is in the dictionary as a reference to    *)
(* its place in the dictionary, any other byte as itself.  A Dictionary is *)
(* [kind, data].  In the specification of this section enc holds the       *)
(* ZstdEncoder, whose dest is the sink, started says that the frame that   *)
(* is open has bytes in the sink, and pending holds the bytes the codec    *)
(* has taken and not yet written.                                           *)

\* WARC_DICT_FRAME.to_le_bytes(), ZSTD_FRAME.to_le_bytes() is ZstdMagic
WarcDictMagic == <<"]", "*", "M", "0x18">>
ZstdFrameHeader == <<"fhd", "wd">>
ZstdEos == "zeos"
ZstdChecksum == <<"xxh1", "xxh2">>

\* The values of a byte, for the lengths this model writes
ByteValues ==
    <<"0x00", "0x01", "0x02", "0x03", "0x04", "0x05", "0x06", "0x07",
      "0x08", "0x09", "0x0a", "0x0b", "0x0c", "0x0d", "0x0e">>

\* u32::to_le_bytes
to_le_bytes(n) == <<ByteValues[n + 1], "0x00", "0x00", "0x00">>

\* u32::from_le_bytes: -1 stands for a number this model does not write
from_le_bytes(b) ==
    IF SubSeq(b, 2, 4) = <<"0x00", "0x00", "0x00">>
       /\ \E n \in 1..Len(ByteValues) : ByteValues[n] = b[1]
    THEN (CHOOSE n \in 1..Len(ByteValues) : ByteValues[n] = b[1]) - 1
    ELSE 0 - 1

\* The references of the codec to the places of its dictionary
DictRefs ==
    <<"r1", "r2", "r3", "r4", "r5", "r6", "r7", "r8", "r9", "r10", "r11", "r12">>

\* The codec: the tokens of data under a dictionary
ZstdTokens(data, dict) ==
    [i \in 1..Len(data) |->
        IF \E k \in 1..Len(dict) : dict[k] = data[i]
        THEN DictRefs[CHOOSE k \in 1..Len(dict) :
                        /\ dict[k] = data[i]
                        /\ \A j \in 1..(k - 1) : dict[j] # data[i]]
        ELSE data[i]]

\* What the codec writes for the start of a frame and for its end
ZstdFrameStart == ZstdMagic \o ZstdFrameHeader
ZstdFrameEnd == <<ZstdEos>> \o ZstdChecksum

\* zstd::bulk::compress: one frame, no dictionary
bulk_compress(data) == ZstdFrameStart \o data \o ZstdFrameEnd

NoDictionary == [kind |-> "None", data |-> <<>>]
WarcZstd(data) == [kind |-> "WarcZstd", data |-> data]

\* The skippable frame of a dictionary
WarcDictFrame(data) == WarcDictMagic \o to_le_bytes(Len(data)) \o data

\* ZstdEncoder::new
ZstdEncoder_new(dictionary) ==
    [dictionary |-> dictionary,
     warc_dict_state |-> IF dictionary.kind = "WarcZstd"
                         THEN "PendingFrameWrite" ELSE "None",
     dest |-> <<>>, started |-> FALSE, pending |-> <<>>]

\* ZstdEncoder::write_warc_dictionary
write_warc_dictionary(e) ==
    IF e.dictionary.kind = "WarcZstd"
    THEN [e EXCEPT !.dest = @ \o WarcDictFrame(e.dictionary.data)]
    ELSE e

\* impl Write for ZstdEncoder: write (the codec takes the whole buffer)
ZstdEncoder_write(e, buf) ==
    LET e1 == IF e.warc_dict_state = "PendingFrameWrite"
              THEN write_warc_dictionary([e EXCEPT !.warc_dict_state = "Ok"])
              ELSE e
    IN  [e1 EXCEPT !.pending = @ \o buf]

\* impl Write for ZstdEncoder: flush.  The codec writes what it holds; a
\* frame that has taken no byte yet writes nothing.
ZstdEncoder_flush(e) ==
    IF e.pending = <<>> THEN e
    ELSE [e EXCEPT
            !.dest = @ \o (IF e.started THEN <<>> ELSE ZstdFrameStart)
                       \o ZstdTokens(e.pending, e.dictionary.data),
            !.started = TRUE, !.pending = <<>>]

\* zstd::stream::write::Encoder::finish: the frame is ended, also one that
\* has taken no byte
ZstdEncoderImpl_finish(e) ==
    [e EXCEPT
        !.dest = @ \o (IF e.started THEN <<>> ELSE ZstdFrameStart)
                   \o ZstdTokens(e.pending, e.dictionary.data)
                   \o ZstdFrameEnd,
        !.started = FALSE, !.pending = <<>>]

\* ZstdEncoder::finish
ZstdEncoder_finish(e) == ZstdEncoderImpl_finish(e)

\* ZstdEncoder::start_new_frame
start_new_frame(e) == ZstdEncoderImpl_finish(e)

\* The number of places of b where a begins
Occurrences(a, b) ==
    Cardinality({i \in 1..Len(b) : IsPrefix(a, SubSeq(b, i, Len(b)))})

----------------------------------------------------------------------------
(* compress/zstd/decode.rs: ZstdPushDecoder.  frame is the frame decoder   *)
(* of the zstd library: [phase, n, dict], phase "start" while the n first  *)
(* bytes of a frame have been taken, "body" in its blocks, "check" in its  *)
(* checksum.                                                                *)

\* ZstdFrameDecoder::new / with_dictionary
ZstdFrameDecoder_new(dict) == [phase |-> "start", n |-> 0, dict |-> dict]

\* ZstdFrameDecoder::reinit: the session is reset, the dictionary is kept
reinit(fd) == [fd EXCEPT !.phase = "start", !.n = 0]

\* Operation::run of the frame decoder over input from place i on:
\* [ok, fd, pos, out, hint0].  It takes input up to the end of the frame
\* and no further; hint0 says that the frame has ended.
RECURSIVE run(_, _, _, _)
run(fd, input, i, out) ==
    IF i > Len(input)
    THEN [ok |-> TRUE, fd |-> fd, pos |-> i - 1, out |-> out, hint0 |-> FALSE]
    ELSE LET t == input[i]
             fail == [ok |-> FALSE, fd |-> fd, pos |-> i - 1, out |-> out,
                      hint0 |-> FALSE]
         IN  IF fd.phase = "start"
             THEN IF t # ZstdFrameStart[fd.n + 1] THEN fail
                  ELSE IF fd.n + 1 = Len(ZstdFrameStart)
                  THEN run([fd EXCEPT !.phase = "body", !.n = 0], input, i + 1, out)
                  ELSE run([fd EXCEPT !.n = @ + 1], input, i + 1, out)
             ELSE IF fd.phase = "body"
             THEN IF t = ZstdEos
                  THEN run([fd EXCEPT !.phase = "check", !.n = 0], input, i + 1, out)
                  ELSE IF \E k \in 1..Len(DictRefs) : DictRefs[k] = t
                  THEN LET k == CHOOSE k \in 1..Len(DictRefs) : DictRefs[k] = t
                       IN  IF k > Len(fd.dict) THEN fail
                           ELSE run(fd, input, i + 1, Append(out, fd.dict[k]))
                  ELSE run(fd, input, i + 1, Append(out, t))
             ELSE IF fd.n + 1 = Len(ZstdChecksum)
                  THEN [ok |-> TRUE, fd |-> reinit(fd), pos |-> i, out |-> out,
                        hint0 |-> TRUE]
                  ELSE run([fd EXCEPT !.n = @ + 1], input, i + 1, out)

\* zstd.rs: BULK_BUFFER_LENGTH is 16 MiB; the model counts the lengths of
\* dictionaries on a scale where the limit is 12 bytes.
BULK_BUFFER_LENGTH == 12

\* zstd::bulk::decompress(src, BULK_BUFFER_LENGTH): [ok, data]
bulk_decompress(src) ==
    LET r == run(ZstdFrameDecoder_new(<<>>), src, 1, <<>>)
    IN  [ok |-> /\ r.ok /\ r.hint0 /\ r.pos = Len(src)
                /\ Len(r.out) <= BULK_BUFFER_LENGTH,
         data |-> r.out]

\* zstd.rs: is_skippable_frame
is_skippable_frame(magic) ==
    /\ SubSeq(magic, 2, 4) = SubSeq(WarcDictMagic, 2, 4)
    /\ magic[1] \in {"P", "Q", "R", "S", "T", "U", "V", "W", "X", "Y", "Z",
                     "[", "0x5c", "]", "^", "_"}

\* ZstdPushDecoder::new
ZstdPushDecoder_new(dictionary) ==
    [state |-> "FileHeader", dictionary |-> dictionary, output |-> <<>>,
     frame_decoder |-> ZstdFrameDecoder_new(
        IF dictionary.kind = "Zstd" THEN dictionary.data ELSE <<>>),
     magic_number |-> <<>>, data_length |-> 0, data_current |-> 0,
     buf |-> <<>>]

\* ZstdPushDecoder::read_magic_bytes: [ok, n, d]
read_magic_bytes(d, buf) ==
    IF d.buf = <<>> /\ Len(buf) >= 8
    THEN [ok |-> TRUE, n |-> 8,
          d |-> [d EXCEPT !.magic_number = SubSeq(buf, 1, 4),
                          !.data_length = from_le_bytes(SubSeq(buf, 5, 8)),
                          !.data_current = 0]]
    ELSE IF Len(d.buf) + Len(buf) >= 8
    THEN LET remain_length == 8 - Len(d.buf)
             b == d.buf \o SubSeq(buf, 1, remain_length)
         IN  [ok |-> TRUE, n |-> remain_length,
              d |-> [d EXCEPT !.buf = b,
                              !.magic_number = SubSeq(b, 1, 4),
                              !.data_length = from_le_bytes(SubSeq(b, 5, 8)),
                              !.data_current = 0]]
    ELSE [ok |-> FALSE, n |-> Len(buf), d |-> [d EXCEPT !.buf = @ \o buf]]

\* ZstdPushDecoder::process_zstd_frame: [ok, n, d]
process_zstd_frame(d, input) ==
    LET r == run(d.frame_decoder, input, 1, <<>>)
    IN  [ok |-> r.ok, n |-> r.pos,
         d |-> [d EXCEPT !.frame_decoder = r.fd,
                         !.output = @ \o r.out,
                         !.state = IF r.ok /\ r.hint0 THEN "FrameHeader" ELSE @]]

\* ZstdPushDecoder::reset_for_next_frame
reset_for_next_frame(d) ==
    [d EXCEPT !.state = "FrameHeader", !.frame_decoder = reinit(@)]

\* ZstdPushDecoder::process_header: [ok, n, d]
zstd_process_header(d, buf, enable_dict) ==
    LET m == read_magic_bytes(d, buf)
        d1 == m.d
        header == IF d.buf = <<>> THEN SubSeq(buf, 1, 8) ELSE d1.buf
        z == process_zstd_frame([d1 EXCEPT !.state = "ZstdFrame"], header)
    IN  IF ~m.ok THEN [ok |-> TRUE, n |-> m.n, d |-> d1]
        ELSE IF enable_dict /\ d1.magic_number = WarcDictMagic
                /\ d1.dictionary.kind = "WarcZstd"
        THEN [ok |-> TRUE, n |-> m.n,
              d |-> [d1 EXCEPT !.state = "DictionaryFrameData", !.buf = <<>>]]
        ELSE IF is_skippable_frame(d1.magic_number)
        THEN [ok |-> TRUE, n |-> m.n,
              d |-> [d1 EXCEPT !.state = "SkippableFrameData", !.buf = <<>>]]
        ELSE IF ~z.ok THEN [ok |-> FALSE, n |-> 0, d |-> z.d]
        ELSE [ok |-> TRUE, n |-> m.n, d |-> [z.d EXCEPT !.buf = <<>>]]

\* ZstdPushDecoder::read_skippable_frame: the number of bytes it takes
read_skippable_frame(d, buf) == Min(d.data_length - d.data_current, Len(buf))

\* ZstdPushDecoder::process_dictionary_frame_data: [ok, n, d]
process_dictionary_frame_data(d, buf) ==
    LET bytes_read == read_skippable_frame(d, buf)
        dict == d.dictionary.data \o SubSeq(buf, 1, bytes_read)
        d1 == [d EXCEPT !.data_current = @ + bytes_read,
                        !.dictionary = WarcZstd(dict)]
        decomp == bulk_decompress(dict)
    IN  IF d1.data_current # d1.data_length
        THEN [ok |-> TRUE, n |-> bytes_read, d |-> d1]
        ELSE IF starts_with(dict, ZstdMagic)
        THEN IF ~decomp.ok THEN [ok |-> FALSE, n |-> 0, d |-> d1]
             ELSE [ok |-> TRUE, n |-> bytes_read,
                   d |-> reset_for_next_frame(
                            [d1 EXCEPT !.frame_decoder =
                                           ZstdFrameDecoder_new(decomp.data),
                                       !.dictionary = WarcZstd(decomp.data)])]
        ELSE [ok |-> TRUE, n |-> bytes_read,
              d |-> reset_for_next_frame(
                       [d1 EXCEPT !.frame_decoder = ZstdFrameDecoder_new(dict)])]

\* ZstdPushDecoder::process_skippable_frame_data: [ok, n, d]
process_skippable_frame_data(d, buf) ==
    LET bytes_read == read_skippable_frame(d, buf)
        d1 == [d EXCEPT !.data_current = @ + bytes_read]
    IN  [ok |-> TRUE, n |-> bytes_read,
         d |-> IF d1.data_current = d1.data_length
               THEN reset_for_next_frame(d1) ELSE d1]

\* impl Write for ZstdPushDecoder: write: [ok, n, d]
ZstdPushDecoder_write(d, buf) ==
    IF d.state = "FileHeader" THEN zstd_process_header(d, buf, TRUE)
    ELSE IF d.state = "FrameHeader" THEN zstd_process_header(d, buf, FALSE)
    ELSE IF d.state = "DictionaryFrameData"
    THEN process_dictionary_frame_data(d, buf)
    ELSE IF d.state = "SkippableFrameData"
    THEN process_skippable_frame_data(d, buf)
    ELSE process_zstd_frame(d, buf)

MaxFrames == 2      \* most frames one ZstdEncoder starts after its first
MaxFrameLen == 2    \* most bytes written to one frame

\* The dictionaries of the encoder: none, an empty one, a raw one and the
\* same one compressed
Dictionaries ==
    {NoDictionary, WarcZstd(<<>>), WarcZstd(<<"a">>),
     WarcZstd(bulk_compress(<<"a">>))}

\* The buffers given to write of the ZstdEncoder
ZstdBufs == {<<>>, <<"a">>, <<"b">>, <<"b", "a">>}

\* The lengths of the buffers given to write of the ZstdPushDecoder
ZstdChunkLens == {1, 3, 8, Len(stream)}

\* obs.written: the bytes given to the encoder; obs.frames: the frames it
\* has ended; obs.fresh: the frame that is open has taken no write.
InitZstd ==
    /\ stream = <<>>
    /\ format = "Zstandard"
    /\ pd = PushDecoder_new
    /\ wpos = 0
    /\ event = NoEvent
    /\ obs = [written |-> <<>>, frames |-> 0, framelen |-> 0]
    /\ dec = NoDecoder
    /\ \E dictionary \in Dictionaries : enc = ZstdEncoder_new(dictionary)
    /\ call = NoCall

ZstdEncoding == call.op \in {"none", "write", "flush", "start_new_frame"}
ZstdDecoding == ~ZstdEncoding /\ call.ok

ZstdWrite(buf) ==
    /\ ZstdEncoding
    /\ obs.framelen + Len(buf) <= MaxFrameLen
    /\ enc' = ZstdEncoder_write(enc, buf)
    /\ obs' = [obs EXCEPT !.written = @ \o buf, !.framelen = @ + Len(buf)]
    /\ call' = [Returned("write") EXCEPT !.value = Len(buf)]
    /\ UNCHANGED <<stream, format, pd, wpos, event, dec>>

ZstdFlush ==
    /\ ZstdEncoding
    /\ enc' = ZstdEncoder_flush(enc)
    /\ call' = Returned("flush")
    /\ UNCHANGED <<stream, format, pd, wpos, event, obs, dec>>

ZstdStartNewFrame ==
    /\ ZstdEncoding
    /\ obs.frames < MaxFrames
    /\ enc' = start_new_frame(enc)
    /\ obs' = [obs EXCEPT !.frames = @ + 1, !.framelen = 0]
    /\ call' = Returned("start_new_frame")
    /\ UNCHANGED <<stream, format, pd, wpos, event, dec>>

\* ZstdEncoder::finish, and ZstdPushDecoder::new for what is in the sink
ZstdFinish ==
    /\ ZstdEncoding
    /\ enc' = ZstdEncoder_finish(enc)
    /\ stream' = ZstdEncoder_finish(enc).dest
    /\ dec' = ZstdPushDecoder_new(WarcZstd(<<>>))
    /\ call' = Returned("finish")
    /\ UNCHANGED <<format, pd, wpos, event, obs>>

\* One write of the next k bytes of the file to the ZstdPushDecoder; the
\* bytes it did not take are given again by the next write.
ZstdDecWrite(k) ==
    /\ ZstdDecoding
    /\ wpos < Len(stream)
    /\ \E r \in {ZstdPushDecoder_write(dec,
                    SubSeq(stream, wpos + 1, Min(Len(stream), wpos + k)))} :
          /\ dec' = r.d
          /\ wpos' = wpos + r.n
          /\ call' = IF r.ok
                     THEN [Returned("decoder_write") EXCEPT !.value = r.n]
                     ELSE Failed("decoder_write", "Io")
    /\ UNCHANGED <<stream, format, pd, event, obs, enc>>

NextZstd ==
    \/ \E buf \in ZstdBufs : ZstdWrite(buf)
    \/ ZstdFlush
    \/ ZstdStartNewFrame
    \/ ZstdFinish
    \/ \E k \in ZstdChunkLens : ZstdDecWrite(k)

SpecZstd == InitZstd /\ [][NextZstd]_vars

\* C16: an encoder with a WARC-zstd dictionary writes the skippable frame
\* of the dictionary once, and before the first byte of any zstd frame,
\* whatever the sequence of write, flush, start_new_frame and finish.
C16_DictionaryFrameFirst ==
    enc.dictionary.kind = "WarcZstd" =>
        /\ enc.dest # <<>> =>
              IsPrefix(WarcDictFrame(enc.dictionary.data), enc.dest)
        /\ Occurrences(WarcDictMagic, enc.dest) <= 1
        /\ call.op \notin {"none", "write", "flush", "start_new_frame"} =>
              Occurrences(WarcDictMagic, enc.dest) = 1

\* C17: a file of the encoder that begins with the skippable frame of its
\* dictionary is decoded, by a decoder with an empty WARC-zstd dictionary,
\* to the bytes that were written.
C17_DictionaryRoundTrip ==
    /\ enc.dictionary.kind = "WarcZstd"
    /\ ~ZstdEncoding
    /\ IsPrefix(WarcDictFrame(enc.dictionary.data), stream)
    => /\ call.ok
       /\ IsPrefix(dec.output, obs.written)
       /\ wpos = Len(stream) => dec.output = obs.written

----------------------------------------------------------------------------
(* verify.rs: the Verifier.  A header is its field map: a function from    *)
(* the names of FieldNames to the values the header has under the name, in *)
(* order.  Record IDs are numbers, 0 is the empty string that              *)
(* get_or_default gives for a header without ID.  The tables of the        *)
(* database are sets of tuples.  A problem is [record_id, kind], kind a    *)
(* tuple of the name of the ProblemKind and its values.  The value of a    *)
(* field that get_u64_strict reads is a number, or Malformed for a text    *)
(* that it does not parse.  checks is the set of checks that are switched  *)
(* on (checks_mut); panicked tells that an unwrap of process_header        *)
(* panicked, and nothing after it was done.  The checks of process_header  *)
(* that look at the header alone and add problems of other kinds           *)
(* (content_type, ip_address, refers_to_target_uri, refers_to_date,        *)
(* target_uri, truncated, filename, profile, payload_digest) are left out. *)

FieldNames ==
    {"WARC-Record-ID", "WARC-Type", "Content-Length", "WARC-Concurrent-To",
     "WARC-Refers-To", "WARC-Warcinfo-ID", "WARC-Target-URI",
     "WARC-Segment-Number", "WARC-Segment-Origin-ID",
     "WARC-Segment-Total-Length", "WARC-Block-Digest", "WARC-Date"}

\* WarcHeader::empty
WarcHeader_empty == [n \in FieldNames |-> <<>>]

\* FieldMap::contains_name, get_all, get_or_default for IDs
contains_name(header, name) == header[name] # <<>>
get_all(header, name) == header[name]
get_or_default(header, name) ==
    IF header[name] = <<>> THEN 0 ELSE header[name][1]

MaxId == 3          \* record IDs are 1..MaxId
MaxSegment == 3     \* segment numbers are 0..MaxSegment
BatchIndex == 1     \* the keys one verify_end looks at (1025 in verify.rs)

NoneCursor == 0 - 1

\* The value of a numeric field whose text get_u64_strict does not parse
Malformed == 0 - 1

\* Check::all, the checks of this model
Checks ==
    {"MandatoryFields", "ConcurrentTo", "RefersTo", "TargetUri", "WarcinfoId",
     "Segment", "BlockDigest"}

\* Verifier::new
Verifier_new ==
    [problems |-> <<>>,
     records |-> {}, id_references |-> {}, segments |-> {},
     segment_lengths |-> {},
     id_references_cursor |-> 0, segment_length_cursor |-> 0,
     header |-> WarcHeader_empty, digests |-> {}, hashers |-> <<>>,
     checks |-> Checks, panicked |-> FALSE]

\* Verifier::record_id, record_type
record_id(v) == get_or_default(v.header, "WARC-Record-ID")
record_type(v) ==
    IF v.header["WARC-Type"] = <<>> THEN "" ELSE v.header["WARC-Type"][1]

\* Verifier::add_problem
add_problem(v, kind) ==
    [v EXCEPT !.problems = Append(@, [record_id |-> record_id(v), kind |-> kind])]

\* Verifier::require_field
require_field(v, name) ==
    IF ~contains_name(v.header, name)
    THEN add_problem(v, <<"RequiredFieldMissing", name>>) ELSE v

\* Verifier::prohibit_field: the verifier after it; the result of the
\* function is contains_name
prohibit_field(v, name) ==
    IF contains_name(v.header, name)
    THEN add_problem(v, <<"ProhibitedField", name>>) ELSE v

\* Verifier::is_any_record_type
is_any_record_type(v, types) == record_type(v) \in types

\* The references of one record to the targets of a field
References(v, name, type) ==
    {<<record_id(v), get_all(v.header, name)[i], type>> :
        i \in 1..Len(get_all(v.header, name))}

\* Verifier::concurrent_to
concurrent_to(v) ==
    IF is_any_record_type(v, {"warcinfo", "conversion", "continuation"})
       /\ contains_name(v.header, "WARC-Concurrent-To")
    THEN prohibit_field(v, "WARC-Concurrent-To")
    ELSE [v EXCEPT !.id_references =
            @ \cup References(v, "WARC-Concurrent-To", "Concurrent-To")]

\* Verifier::refers_to
refers_to(v) ==
    IF is_any_record_type(v, {"warcinfo", "response", "resource", "request",
                              "continuation"})
       /\ contains_name(v.header, "WARC-Refers-To")
    THEN prohibit_field(v, "WARC-Refers-To")
    ELSE IF contains_name(v.header, "WARC-Refers-To")
    THEN [v EXCEPT !.id_references =
            @ \cup {<<record_id(v), v.header["WARC-Refers-To"][1], "Refers-To">>}]
    ELSE v

\* A value of a field that holds a URL: its text, between < and > or not
Url(text, brackets) == [text |-> text, brackets |-> brackets]

\* header/fields.rs: is_formatted_bad_spec_url
is_formatted_bad_spec_url(header, name) ==
    contains_name(header, name) /\ header[name][1].brackets

\* header/fields.rs: get_url is Some(Err): Url::parse of the text without
\* its brackets fails for a text that has no scheme
get_url_err(header, name) ==
    contains_name(header, name) /\ header[name][1].text = "no scheme"

\* Verifier::target_uri
target_uri(v) ==
    LET v1 == IF contains_name(v.header, "WARC-Target-URI")
                 /\ is_any_record_type(v, {"warcinfo"})
              THEN prohibit_field(v, "WARC-Target-URI")
              ELSE IF is_any_record_type(v, {"response", "resource", "request",
                                             "revisit", "conversion",
                                             "continuation"})
              THEN require_field(v, "WARC-Target-URI")
              ELSE v
        v2 == IF is_formatted_bad_spec_url(v.header, "WARC-Target-URI")
              THEN add_problem(v1, <<"BadSpecUri", "WARC-Target-URI">>)
              ELSE v1
    IN  IF get_url_err(v.header, "WARC-Target-URI")
        THEN add_problem(v2, <<"InvalidUrl", "WARC-Target-URI">>)
        ELSE v2

\* Verifier::warcinfo_id
warcinfo_id(v) ==
    IF is_any_record_type(v, {"warcinfo"})
       /\ contains_name(v.header, "WARC-Target-URI")
    THEN prohibit_field(v, "WARC-Target-URI")
    ELSE IF contains_name(v.header, "WARC-Warcinfo-ID")
    THEN [v EXCEPT !.id_references =
            @ \cup {<<record_id(v), v.header["WARC-Warcinfo-ID"][1], "Warcinfo-ID">>}]
    ELSE v

\* Table::insert of the table of segments: one length for each key
segments_insert(table, origin_id, number, length) ==
    {e \in table : ~(e[1] = origin_id /\ e[2] = number)}
        \cup {<<origin_id, number, length>>}

\* WarcHeader::content_length of a header of the verifier: [ok, value],
\* Err when the field is missing or is not a number
header_content_length(header) ==
    IF header["Content-Length"] = <<>> \/ header["Content-Length"][1] = Malformed
    THEN [ok |-> FALSE, value |-> 0]
    ELSE [ok |-> TRUE, value |-> header["Content-Length"][1]]

\* Verifier::segment_begin; content_length().unwrap() panics on Err
segment_begin(v) ==
    LET v1 == IF is_any_record_type(v, {"continuation"})
              THEN add_problem(v, <<"InvalidSegment">>) ELSE v
        length == header_content_length(v.header)
    IN  IF ~length.ok THEN [v1 EXCEPT !.panicked = TRUE]
        ELSE [v1 EXCEPT !.segments =
                segments_insert(@, record_id(v), 1, length.value)]

\* Verifier::segment_middle; content_length().unwrap() panics on Err
segment_middle(v, number) ==
    LET length == header_content_length(v.header)
    IN  IF ~length.ok THEN [v EXCEPT !.panicked = TRUE]
        ELSE [v EXCEPT !.segments =
                segments_insert(@, get_or_default(v.header, "WARC-Segment-Origin-ID"),
                                number, length.value)]

Mutant_segment_end(v, number) == segment_middle(v, number)

\* Verifier::segment_end
segment_end(v, number) ==
    LET v1 == segment_middle(v, number)
        origin_id == get_or_default(v.header, "WARC-Segment-Origin-ID")
    IN  IF v1.panicked THEN v1
        ELSE IF contains_name(v.header, "WARC-Segment-Total-Length")
                /\ v.header["WARC-Segment-Total-Length"][1] = Malformed
        THEN add_problem(v1, <<"ParseInt", "WARC-Segment-Total-Length">>)
        ELSE IF contains_name(v.header, "WARC-Segment-Total-Length")
        THEN [v1 EXCEPT !.segment_lengths =
                {e \in @ : e[1] # origin_id}
                    \cup {<<origin_id, v.header["WARC-Segment-Total-Length"][1]>>}]
        ELSE v1

\* Verifier::segment
segment(v) ==
    LET v1 == IF is_any_record_type(v, {"continuation"})
              THEN require_field(
                     require_field(
                       require_field(v, "WARC-Segment-Origin-ID"),
                       "WARC-Segment-Total-Length"),
                     "WARC-Segment-Number")
              ELSE prohibit_field(
                     prohibit_field(v, "WARC-Segment-Origin-ID"),
                     "WARC-Segment-Total-Length")
    IN  IF ~contains_name(v.header, "WARC-Segment-Number") THEN v1
        ELSE LET number == v.header["WARC-Segment-Number"][1]
             IN  IF number = Malformed
                 THEN add_problem(v1, <<"ParseInt", "WARC-Segment-Number">>)
                 ELSE IF number = 1 THEN segment_begin(v1)
                 ELSE IF contains_name(v.header, "WARC-Segment-Total-Length")
                 THEN segment_end(v1, number)
                 ELSE segment_middle(v1, number)

\* digest.rs: the algorithms of this model, and the hash of each: the
\* hasher keeps a number, update of a byte b makes it
\* (number * HashBase + b) % HashModulus.
Algorithms == {"crc32", "md5"}
HashModulus == 3
HashBase(algorithm) == IF algorithm = "crc32" THEN 2 ELSE 1

\* Hasher::new
Hasher_new(algorithm) == [algorithm |-> algorithm, inner |-> 0]

\* Hasher::update
RECURSIVE Hasher_update(_, _)
Hasher_update(hasher, data) ==
    IF data = <<>> THEN hasher
    ELSE Hasher_update(
            [hasher EXCEPT !.inner =
                (@ * HashBase(hasher.algorithm) + Head(data)) % HashModulus],
            Tail(data))

\* Hasher::finish: the value; the hasher is replaced by a new one
Hasher_finish(hasher) == hasher.inner

\* Digest::from_str of the value of a field: a value of a digest field is
\* [algorithm, value], parsed when its algorithm is known
Digest_from_str_ok(value) == value.algorithm \in Algorithms

\* Verifier::block_digest
RECURSIVE block_digest_loop(_, _)
block_digest_loop(v, values) ==
    IF values = <<>> THEN v
    ELSE IF Digest_from_str_ok(Head(values))
    THEN block_digest_loop(
            [v EXCEPT !.hashers = Append(@, Hasher_new(Head(values).algorithm)),
                      !.digests = {d \in @ : d.algorithm # Head(values).algorithm}
                                    \cup {Head(values)}],
            Tail(values))
    ELSE add_problem(block_digest_loop(v, Tail(values)),
                     <<"UnknownDigest", Head(values)>>)

block_digest(v) == block_digest_loop(v, get_all(v.header, "WARC-Block-Digest"))

\* process_header without the record put into the table of records
Mutant_records_insert(v) == v

\* process_header: the record is put into the table of records
records_insert(v) == [v EXCEPT !.records = @ \cup {record_id(v)}]

\* The record types of mandatory_fields
RecordTypes ==
    {"warcinfo", "response", "resource", "request", "metadata", "revisit",
     "conversion", "continuation"}

\* FieldMap::get_date of a value of WARC-Date: the values of this model
\* are one date and one text that is no date
get_date_ok(value) == value = "2024-01-01T00:00:00Z"

\* Verifier::mandatory_fields
mandatory_fields(v) ==
    LET v1 == require_field(
                require_field(
                  require_field(
                    require_field(v, "WARC-Record-ID"),
                    "Content-Length"),
                  "WARC-Date"),
                "WARC-Type")
        v2 == IF ~is_any_record_type(v, RecordTypes)
              THEN add_problem(v1, <<"UnknownRecordType", record_type(v)>>)
              ELSE v1
    IN  IF contains_name(v.header, "WARC-Date")
           /\ ~get_date_ok(v.header["WARC-Date"][1])
        THEN add_problem(v2, <<"InvalidDate", "WARC-Date">>)
        ELSE v2

\* One check of process_header, done when it is switched on
checked(v, check, after) == IF check \in v.checks THEN after ELSE v

\* Verifier::process_header; after a panic nothing more is done
verifier_process_header(v) ==
    LET v1 == checked(v, "MandatoryFields", mandatory_fields(v))
        v2 == checked(v1, "ConcurrentTo", concurrent_to(v1))
        v3 == checked(v2, "RefersTo", refers_to(v2))
        t3 == checked(v3, "TargetUri", target_uri(v3))
        v4 == checked(t3, "WarcinfoId", warcinfo_id(t3))
        v5 == checked(v4, "Segment", segment(v4))
        v6 == checked(v5, "BlockDigest", block_digest(v5))
    IN  IF v5.panicked THEN v5 ELSE records_insert(v6)

\* begin_record that keeps the hashers of the record before
Mutant_clear_hashers(v) == v

\* begin_record: the hashers of the record before are cleared
clear_hashers(v) == [v EXCEPT !.digests = {}, !.hashers = <<>>]

\* Verifier::begin_record
begin_record(v, header) ==
    verifier_process_header(clear_hashers([v EXCEPT !.header = header]))

\* Verifier::block_data
block_data(v, data) ==
    [v EXCEPT !.hashers = [i \in 1..Len(@) |-> Hasher_update(@[i], data)]]

\* Verifier::end_record
RECURSIVE end_record_loop(_, _)
end_record_loop(v, i) ==
    IF i > Len(v.hashers) THEN v
    ELSE LET hasher == v.hashers[i]
             value == Hasher_finish(hasher)
             digest == CHOOSE d \in v.digests : d.algorithm = hasher.algorithm
             v1 == [v EXCEPT !.hashers[i] = Hasher_new(hasher.algorithm)]
         IN  end_record_loop(
                IF digest.value # value
                THEN add_problem(v1, <<"DigestMismatch", hasher.algorithm,
                                       digest.value, value>>)
                ELSE v1,
                i + 1)

end_record(v) == end_record_loop(v, 1)

\* The keys of a table from the cursor on, and the place of a key in them
KeysFrom(table, cursor) == {e[1] : e \in {x \in table : x[1] >= cursor}}
IndexOf(keys, key) == Cardinality({k \in keys : k < key})

\* The cursor that the loop over the keys leaves: the key at BatchIndex
CursorAfter(keys) ==
    IF \E k \in keys : IndexOf(keys, k) = BatchIndex
    THEN CHOOSE k \in keys : IndexOf(keys, k) = BatchIndex
    ELSE NoneCursor

\* The types of the references, in the order of the table
ReferenceTypes == <<"Concurrent-To", "Refers-To", "Warcinfo-ID">>

\* check_references: the problems of the keys from key on, in the order
\* of the table: by key, by target, by type
RECURSIVE references_loop(_, _, _)
references_loop(v, keys, i) ==
    LET n == MaxId + 1
        t == Len(ReferenceTypes)
        key == i \div (n * t)
        target_id == (i \div t) % n
        type == ReferenceTypes[(i % t) + 1]
    IN  IF i >= n * n * t THEN v
        ELSE references_loop(
                IF /\ key \in keys
                   /\ <<key, target_id, type>> \in v.id_references
                   /\ target_id \notin v.records
                THEN [v EXCEPT !.problems = Append(@,
                        [record_id |-> key,
                         kind |-> <<"ReferencedRecordMissing", target_id>>])]
                ELSE v,
                keys, i + 1)

\* Verifier::check_references
check_references(v) ==
    IF v.id_references_cursor = NoneCursor THEN v
    ELSE LET keys == KeysFrom(v.id_references, v.id_references_cursor)
             batch == {k \in keys : IndexOf(keys, k) < BatchIndex}
         IN  references_loop(
                [v EXCEPT !.id_references_cursor = CursorAfter(keys)],
                batch, 0)

\* check_segments: the loop over the segments of one origin from number on:
\* [v, expected_number, current_total_length]
RECURSIVE segment_numbers_loop(_, _, _, _)
segment_numbers_loop(r, origin_id, number, last) ==
    IF number > last THEN r
    ELSE IF \E e \in r.v.segments : e[1] = origin_id /\ e[2] = number
    THEN LET e == CHOOSE e \in r.v.segments : e[1] = origin_id /\ e[2] = number
             missing == number # r.expected_number
         IN  segment_numbers_loop(
                [v |-> IF missing
                       THEN [r.v EXCEPT !.problems = Append(@,
                               [record_id |-> origin_id,
                                kind |-> <<"MissingSegment", r.expected_number>>])]
                       ELSE r.v,
                 expected_number |-> number + 1,
                 current_total_length |-> r.current_total_length + e[3]],
                origin_id, number + 1, last)
    ELSE segment_numbers_loop(r, origin_id, number + 1, last)

\* check_segments: the loop over the origins of keys from origin_id on
RECURSIVE segments_loop(_, _, _)
segments_loop(v, keys, origin_id) ==
    IF origin_id > MaxId THEN v
    ELSE IF origin_id \notin keys THEN segments_loop(v, keys, origin_id + 1)
    ELSE LET expected_total_length ==
                 (CHOOSE e \in v.segment_lengths : e[1] = origin_id)[2]
             r == segment_numbers_loop(
                    [v |-> v, expected_number |-> 1, current_total_length |-> 0],
                    origin_id, 1, MaxSegment)
         IN  segments_loop(
                IF expected_total_length # r.current_total_length
                THEN [r.v EXCEPT !.problems = Append(@,
                        [record_id |-> origin_id,
                         kind |-> <<"MismatchedSegmentLength",
                                    expected_total_length,
                                    r.current_total_length>>])]
                ELSE r.v,
                keys, origin_id + 1)

\* Verifier::check_segments: the loop goes on after the key at BatchIndex
check_segments(v) ==
    IF v.segment_length_cursor = NoneCursor THEN v
    ELSE LET keys == KeysFrom(v.segment_lengths, v.segment_length_cursor)
         IN  segments_loop(
                [v EXCEPT !.segment_length_cursor = CursorAfter(keys)],
                keys, 0)

Mutant_VerifyDone(v) == v.id_references_cursor = NoneCursor

\* Verifier::verify_end: the verifier after it; Done is VerifyDone of it
verify_end(v) == check_segments(check_references(v))
VerifyDone(v) ==
    v.id_references_cursor = NoneCursor /\ v.segment_length_cursor = NoneCursor

MaxFed == 3         \* most records fed to one Verifier
MaxBlockLen == 2    \* most bytes of the block of one record

\* A header with an ID, a type and a length
VerifyHeader(id, type, length) ==
    [WarcHeader_empty EXCEPT !["WARC-Record-ID"] = <<id>>,
                             !["WARC-Type"] = <<type>>,
                             !["Content-Length"] = <<length>>]

\* Headers with at most one reference, as WarcHeader::parse gives them
\* (each name once)
ReferenceHeaders ==
    LET plain == {VerifyHeader(id, type, 0) :
                    id \in 1..2, type \in {"revisit", "warcinfo"}}
    IN  plain \cup
        {[h EXCEPT ![name] = <<target>>] :
            h \in plain,
            name \in {"WARC-Concurrent-To", "WARC-Refers-To", "WARC-Warcinfo-ID"},
            target \in 2..MaxId}

\* Headers of the segments of records 1 and 3: first segments, one of
\* them with a total length, and continuations with and without one
SegmentHeaders ==
    {[VerifyHeader(id, "response", length)
        EXCEPT !["WARC-Segment-Number"] = <<1>>] :
        id \in {1, 3}, length \in {3}}
    \cup
    {[VerifyHeader(1, "response", 3)
        EXCEPT !["WARC-Segment-Number"] = <<1>>,
               !["WARC-Segment-Total-Length"] = <<7>>]}
    \cup
    {[VerifyHeader(2, "continuation", length)
        EXCEPT !["WARC-Segment-Number"] = <<number>>,
               !["WARC-Segment-Origin-ID"] = <<origin>>,
               !["WARC-Segment-Total-Length"] = total] :
        length \in {3, 4}, number \in {0, 2, 3}, origin \in {1, 3},
        total \in {<<>>, <<7>>}}

\* Headers with block digests: none, one, two of two algorithms, and one
\* of an unknown algorithm
DigestHeaders ==
    {[VerifyHeader(1, "resource", 0) EXCEPT !["WARC-Block-Digest"] = digests] :
        digests \in
            {<<>>, <<[algorithm |-> "unknown", value |-> 0]>>,
             <<[algorithm |-> "md5", value |-> 1],
               [algorithm |-> "crc32", value |-> 2]>>}
            \cup {<<[algorithm |-> "crc32", value |-> x]>> : x \in 1..2}}

\* The bytes of the blocks, and the buffers given to block_data
BlockBytes == {1, 2}
BlockBufs == {<<>>} \cup {<<b>> : b \in BlockBytes}
                \cup {<<b, c>> : b \in BlockBytes, c \in BlockBytes}

\* In the specification of the verifier obs is the Verifier, with the check
\* of the mandatory fields switched off (checks_mut), stream the
\* records fed to it, each [header, data], format says which headers are
\* fed, and wpos is the number of the block_data calls of the last record
\* that gave it bytes.
InitVerify ==
    /\ stream = <<>>
    /\ format \in {"References", "Segments", "Digests"}
    /\ pd = PushDecoder_new
    /\ wpos = 0
    /\ event = NoEvent
    /\ obs = [Verifier_new EXCEPT !.checks = @ \ {"MandatoryFields", "TargetUri"}]
    /\ dec = NoDecoder
    /\ enc = Encoder_new
    /\ call = NoCall

VerifyHeaders ==
    IF format = "References" THEN ReferenceHeaders
    ELSE IF format = "Segments" THEN SegmentHeaders
    ELSE DigestHeaders

InRecord == call.op \in {"begin_record", "block_data"}

BeginRecord(header) ==
    /\ call.op \in {"none", "end_record"}
    /\ Len(stream) < MaxFed
    /\ obs' = begin_record(obs, header)
    /\ stream' = Append(stream, [header |-> header, data |-> <<>>])
    /\ wpos' = 0
    /\ call' = Returned("begin_record")
    /\ UNCHANGED <<format, pd, event, dec, enc>>

\* block_data, for the records with a block digest
BlockData(data) ==
    /\ InRecord
    /\ contains_name(obs.header, "WARC-Block-Digest")
    /\ Len(stream[Len(stream)].data) + Len(data) <= MaxBlockLen
    /\ obs' = block_data(obs, data)
    /\ stream' = [stream EXCEPT ![Len(stream)].data = @ \o data]
    /\ wpos' = IF data = <<>> THEN wpos ELSE wpos + 1
    /\ call' = Returned("block_data")
    /\ UNCHANGED <<format, pd, event, dec, enc>>

\* end_record: call.value is the number of problems before it
EndRecord ==
    /\ InRecord
    /\ obs' = end_record(obs)
    /\ call' = [Returned("end_record") EXCEPT !.value = Len(obs.problems)]
    /\ UNCHANGED <<stream, format, pd, wpos, event, dec, enc>>

\* verify_end: call.flag is Done
VerifyEnd ==
    /\ call.op \in {"end_record", "verify_end"}
    /\ obs' = verify_end(obs)
    /\ call' = [Returned("verify_end") EXCEPT !.flag = VerifyDone(verify_end(obs))]
    /\ UNCHANGED <<stream, format, pd, wpos, event, dec, enc>>

NextVerify ==
    \/ \E header \in VerifyHeaders : BeginRecord(header)
    \/ \E data \in BlockBufs : BlockData(data)
    \/ EndRecord
    \/ VerifyEnd

SpecVerify == InitVerify /\ [][NextVerify]_vars

\* The problems of a kind, and the number of those of one record and kind
ProblemsOf(name) ==
    {i \in 1..Len(obs.problems) : obs.problems[i].kind[1] = name}
CountOf(id, kind) ==
    Cardinality({i \in 1..Len(obs.problems) :
                    obs.problems[i] = [record_id |-> id, kind |-> kind]})

\* The IDs of the records that were fed
FedIds == {get_or_default(stream[i].header, "WARC-Record-ID") : i \in 1..Len(stream)}

VerifyIsDone == call.op = "verify_end" /\ call.flag

\* C18: when verify_end has returned Done, the problems hold
\* ReferencedRecordMissing(target) of the referring record once for each
\* queued reference whose target was fed by no begin_record, before or
\* after, and none for any other reference.
C18_ReferencedRecordMissing ==
    VerifyIsDone =>
        /\ \A i \in ProblemsOf("ReferencedRecordMissing") :
              \E r \in obs.id_references :
                 /\ r[1] = obs.problems[i].record_id
                 /\ r[2] = obs.problems[i].kind[2]
                 /\ r[2] \notin FedIds
        /\ \A id \in 0..MaxId, target \in 0..MaxId :
              CountOf(id, <<"ReferencedRecordMissing", target>>) =
                 IF target \in FedIds THEN 0
                 ELSE Cardinality({r \in obs.id_references :
                                      r[1] = id /\ r[2] = target})

\* Two records refer to a record that was not fed and one to a record that
\* was fed after it; verify_end has returned HasMore and then Done.
C18_Witness ==
    /\ VerifyIsDone
    /\ Len(stream) = 3
    /\ Cardinality({r[1] : r \in obs.id_references}) = 2
    /\ \E r \in obs.id_references : r[2] = 2 /\ r[1] = 1 /\ 2 \in FedIds
         /\ get_or_default(stream[1].header, "WARC-Record-ID") = 1
    /\ Cardinality(ProblemsOf("ReferencedRecordMissing")) = 2

\* The segment that record i of the records fed is: the origin of a
\* segment with number 1 is its own record, that of any other segment its
\* WARC-Segment-Origin-ID.
IsSegment(i) == contains_name(stream[i].header, "WARC-Segment-Number")

SegmentOf(i) ==
    LET h == stream[i].header
        number == h["WARC-Segment-Number"][1]
    IN  [origin |-> IF number = 1 THEN get_or_default(h, "WARC-Record-ID")
                    ELSE get_or_default(h, "WARC-Segment-Origin-ID"),
         number |-> number,
         length |-> h["Content-Length"][1],
         total |-> h["WARC-Segment-Total-Length"]]

SegmentsFed(origin, numbers) ==
    {i \in 1..Len(stream) :
        IsSegment(i) /\ SegmentOf(i).origin = origin
                     /\ SegmentOf(i).number \in numbers}

LastOf(S) == CHOOSE i \in S : \A j \in S : j <= i

\* The numbers among numbers of the segments fed for an origin, and the
\* length of the segment of a number: of two records of one segment the
\* later counts.
RecordedNumbers(origin, numbers) ==
    {SegmentOf(i).number : i \in SegmentsFed(origin, numbers)}

RecordedLength(origin, number) ==
    SegmentOf(LastOf(SegmentsFed(origin, {number}))).length

RECURSIVE SumLengths(_, _)
SumLengths(origin, numbers) ==
    IF numbers = {} THEN 0
    ELSE LET n == CHOOSE n \in numbers : TRUE
         IN  RecordedLength(origin, n) + SumLengths(origin, numbers \ {n})

\* The records that declare the total length of an origin, among the
\* segments with a number in declarers
Declaring(origin, declarers) ==
    {i \in SegmentsFed(origin, declarers) : SegmentOf(i).total # <<>>}

DeclaredTotal(origin, declarers) ==
    SegmentOf(LastOf(Declaring(origin, declarers))).total[1]

\* The first numbers of the gaps below a recorded number
GapStarts(recorded) ==
    {n \in 1..MaxSegment :
        /\ n \notin recorded
        /\ n = 1 \/ (n - 1) \in recorded
        /\ \E m \in recorded : m > n}

\* What verify_end has found about the segments of each origin with a
\* declared total length, when the segments with a number in numbers are
\* the recorded ones and those with a number in declarers declare
SegmentsChecked(numbers, declarers) ==
    \A origin \in 0..MaxId :
        Declaring(origin, declarers) # {} =>
            LET recorded == RecordedNumbers(origin, numbers)
                total == DeclaredTotal(origin, declarers)
                actual == SumLengths(origin, recorded)
            IN  /\ recorded # 1..Cardinality(recorded) =>
                      \E n \in (0..MaxSegment) \ recorded :
                         CountOf(origin, <<"MissingSegment", n>>) > 0
                /\ \A n \in 0..MaxSegment :
                      CountOf(origin, <<"MissingSegment", n>>) > 0
                         <=> n \in GapStarts(recorded)
                /\ CountOf(origin, <<"MismatchedSegmentLength", total, actual>>) > 0
                      <=> actual # total
                /\ \A i \in ProblemsOf("MismatchedSegmentLength") :
                      obs.problems[i].record_id = origin =>
                         obs.problems[i].kind =
                            <<"MismatchedSegmentLength", total, actual>>

HashOf(algorithm, data) ==
    Hasher_finish(Hasher_update(Hasher_new(algorithm), data))

\* The problems that the last end_record has added
EmittedByEndRecord ==
    {obs.problems[i] : i \in (call.value + 1)..Len(obs.problems)}

VerifyEndEnabled ==
    /\ call.op \in {"end_record", "verify_end"}
    /\ \/ verify_end(obs) # obs
       \/ call # [Returned("verify_end")
                    EXCEPT !.flag = VerifyDone(verify_end(obs))]

\* The caller of verify_end calls it again until it returns Done
\* (app/verify.rs): weak fairness of VerifyEnd, WF_vars(VerifyEnd) with its
\* enabling condition written out.
SpecVerifyLive ==
    /\ SpecVerify
    /\ []<>(~VerifyEndEnabled) \/ []<><<VerifyEnd>>_vars

\* C21: once verify_end has been called, calling it again and again leads
\* to a verify_end that returns Done, whatever the tables hold; after
\* Done, a further verify_end returns Done and adds no problem.
C21_VerifyEndTerminates ==
    /\ (call.op = "verify_end") ~> VerifyIsDone
    /\ [][VerifyIsDone => VerifyIsDone' /\ obs'.problems = obs.problems]_vars

\* verify_end has returned Done after it has returned HasMore for the
\* references of two records and for the total lengths of two origins.
C21_Witness ==
    /\ VerifyIsDone
    /\ \/ Cardinality({r[1] : r \in obs.id_references}) = 2
       \/ Cardinality({e[1] : e \in obs.segment_lengths}) = 2

\* digest.rs: the text of a digest, "label:value". A text is a sequence
\* of characters, a value a sequence of bytes 0..255.

\* util.rs to_ascii_uppercase_cow, to_ascii_lowercase_cow
to_ascii_uppercase(text) ==
    [i \in 1..Len(text) |->
        IF IsIn(LowerSeq, text[i])
        THEN UpperSeq[PlaceIn(LowerSeq, text[i])] ELSE text[i]]
to_ascii_lowercase(text) ==
    [i \in 1..Len(text) |->
        IF IsIn(UpperSeq, text[i])
        THEN LowerSeq[PlaceIn(UpperSeq, text[i])] ELSE text[i]]

\* data_encoding: the symbols of HEXLOWER and of BASE32
HexSymbols ==
    <<"0", "1", "2", "3", "4", "5", "6", "7", "8", "9",
      "a", "b", "c", "d", "e", "f">>
Base32Symbols == UpperSeq \o <<"2", "3", "4", "5", "6", "7">>

Pow2(n) == IF n = 0 THEN 1 ELSE IF n = 1 THEN 2 ELSE IF n = 2 THEN 4
           ELSE IF n = 3 THEN 8 ELSE IF n = 4 THEN 16 ELSE IF n = 5 THEN 32
           ELSE IF n = 6 THEN 64 ELSE IF n = 7 THEN 128 ELSE IF n = 8 THEN 256
           ELSE IF n = 9 THEN 512 ELSE IF n = 10 THEN 1024 ELSE 2048

At0(seq, i) == IF i + 1 <= Len(seq) THEN seq[i + 1] ELSE 0

\* HEXLOWER.encode
HEXLOWER_encode(value) ==
    [i \in 1..(2 * Len(value)) |->
        IF i % 2 = 1 THEN HexSymbols[(value[(i + 1) \div 2] \div 16) + 1]
        ELSE HexSymbols[(value[i \div 2] % 16) + 1]]

\* HEXLOWER_PERMISSIVE.decode_len and decode: both cases of the letters
\* are taken; an odd length or another character is an error
HEXLOWER_PERMISSIVE_decode_len(n) == IF n % 2 = 0 THEN n \div 2 ELSE 0

HEXLOWER_PERMISSIVE_decode(text) ==
    LET lower == to_ascii_lowercase(text)
    IN  IF Len(text) % 2 # 0
           \/ \E i \in 1..Len(text) : ~IsIn(HexSymbols, lower[i])
        THEN [ok |-> FALSE, value |-> <<>>]
        ELSE [ok |-> TRUE,
              value |-> [j \in 1..(Len(text) \div 2) |->
                            (PlaceIn(HexSymbols, lower[2 * j - 1]) - 1) * 16
                            + (PlaceIn(HexSymbols, lower[2 * j]) - 1)]]

\* BASE32_NOPAD.encode: 5 bits for each symbol, the last one filled with
\* zero bits; BASE32.encode adds '=' up to a multiple of 8 symbols
BASE32_NOPAD_encode(value) ==
    [k \in 1..((8 * Len(value) + 4) \div 5) |->
        LET bit == 5 * (k - 1)
            window == At0(value, bit \div 8) * 256 + At0(value, bit \div 8 + 1)
        IN  Base32Symbols[((window \div Pow2(11 - (bit % 8))) % 32) + 1]]

BASE32_encode(value) ==
    LET text == BASE32_NOPAD_encode(value)
    IN  text \o [i \in 1..((8 - (Len(text) % 8)) % 8) |-> "="]

\* BASE32_NOPAD.decode_len and decode: a length that leaves 5 bits or
\* more over, a symbol that is not of BASE32 (a lower case letter is not)
\* or bits left over that are not zero are errors
BASE32_NOPAD_decode_len(n) == IF (5 * n) % 8 >= 5 THEN 0 ELSE (5 * n) \div 8

BASE32_NOPAD_decode(text) ==
    IF (5 * Len(text)) % 8 >= 5
       \/ \E i \in 1..Len(text) : ~IsIn(Base32Symbols, text[i])
    THEN [ok |-> FALSE, value |-> <<>>]
    ELSE LET digits == [i \in 1..Len(text) |-> PlaceIn(Base32Symbols, text[i]) - 1]
             n == (5 * Len(text)) \div 8
             over == (5 * Len(text)) % 8
         IN  IF Len(text) > 0 /\ digits[Len(text)] % Pow2(over) # 0
             THEN [ok |-> FALSE, value |-> <<>>]
             ELSE [ok |-> TRUE,
                   value |-> [j \in 1..n |->
                       LET bit == 8 * (j - 1)
                           c == bit \div 5
                           window == At0(digits, c) * 1024
                                     + At0(digits, c + 1) * 32
                                     + At0(digits, c + 2)
                       IN  (window \div Pow2(7 - (bit % 5))) % 256]]

\* AlgorithmName
AlgorithmNames ==
    {"Crc32", "Crc32c", "Xxh3", "Md5", "Sha1", "Sha256", "Sha512",
     "Sha3_256", "Sha3_512", "Blake2s", "Blake3"}

\* AlgorithmName::as_str
as_str(a) ==
    IF a = "Crc32" THEN <<"c", "r", "c", "3", "2">>
    ELSE IF a = "Crc32c" THEN <<"c", "r", "c", "3", "2", "c">>
    ELSE IF a = "Xxh3" THEN <<"x", "x", "h", "3">>
    ELSE IF a = "Md5" THEN <<"m", "d", "5">>
    ELSE IF a = "Sha1" THEN <<"s", "h", "a", "1">>
    ELSE IF a = "Sha256" THEN <<"s", "h", "a", "2", "5", "6">>
    ELSE IF a = "Sha512" THEN <<"s", "h", "a", "5", "1", "2">>
    ELSE IF a = "Sha3_256" THEN <<"s", "h", "a", "3", "-", "2", "5", "6">>
    ELSE IF a = "Sha3_512" THEN <<"s", "h", "a", "3", "-", "5", "1", "2">>
    ELSE IF a = "Blake2s" THEN <<"b", "l", "a", "k", "e", "2", "s">>
    ELSE <<"b", "l", "a", "k", "e", "3">>

\* AlgorithmName::output_len
output_len(a) ==
    IF a \in {"Crc32", "Crc32c"} THEN 4
    ELSE IF a \in {"Xxh3"} THEN 8
    ELSE IF a \in {"Md5"} THEN 16
    ELSE IF a \in {"Sha1"} THEN 20
    ELSE IF a \in {"Sha256", "Sha3_256", "Blake2s", "Blake3"} THEN 32
    ELSE 64

\* remove_compatibility_label
remove_compatibility_label(label) ==
    IF label = <<"s", "h", "a", "-", "1">> THEN <<"s", "h", "a", "1">>
    ELSE IF label = <<"s", "h", "a", "-", "2", "2", "4">>
    THEN <<"s", "h", "a", "2", "2", "4">>
    ELSE IF label = <<"s", "h", "a", "-", "2", "5", "6">>
    THEN <<"s", "h", "a", "2", "5", "6">>
    ELSE IF label = <<"s", "h", "a", "-", "3", "8", "4">>
    THEN <<"s", "h", "a", "3", "8", "4">>
    ELSE IF label = <<"s", "h", "a", "-", "5", "1", "2">>
    THEN <<"s", "h", "a", "5", "1", "2">>
    ELSE label

\* AlgorithmName::from_str
AlgorithmName_from_str(text) ==
    LET label == remove_compatibility_label(to_ascii_lowercase(text))
    IN  IF \E a \in AlgorithmNames : as_str(a) = label
        THEN [ok |-> TRUE,
              algorithm |-> CHOOSE a \in AlgorithmNames : as_str(a) = label]
        ELSE [ok |-> FALSE, algorithm |-> "none"]

\* trim_end_matches('=')
RECURSIVE trim_end_matches(_)
trim_end_matches(text) ==
    IF text # <<>> /\ text[Len(text)] = "="
    THEN trim_end_matches(SubSeq(text, 1, Len(text) - 1))
    ELSE text

Mutant_decode_value(expected_len, value) == HEXLOWER_PERMISSIVE_decode(value)

\* decode_value
decode_value(expected_len, value) ==
    LET nopad_value == trim_end_matches(value)
        b32_len == BASE32_NOPAD_decode_len(Len(nopad_value))
        hex_len == HEXLOWER_PERMISSIVE_decode_len(Len(nopad_value))
    IN  IF expected_len = b32_len /\ expected_len = hex_len
        THEN IF value # <<>> /\ value[Len(value)] = "="
             THEN BASE32_NOPAD_decode(to_ascii_uppercase(nopad_value))
             ELSE HEXLOWER_PERMISSIVE_decode(value)
        ELSE IF expected_len = b32_len
        THEN BASE32_NOPAD_decode(to_ascii_uppercase(nopad_value))
        ELSE HEXLOWER_PERMISSIVE_decode(value)

\* split_once(":").unwrap_or((s, ""))
split_once(text) ==
    IF IsIn(text, ":")
    THEN LET i == CHOOSE i \in 1..Len(text) :
                    text[i] = ":" /\ \A j \in 1..(i - 1) : text[j] # ":"
         IN  <<SubSeq(text, 1, i - 1), SubSeq(text, i + 1, Len(text))>>
    ELSE <<text, <<>>>>

NoDigest == [ok |-> FALSE, algorithm |-> "none", value |-> <<>>]

\* Digest::from_str
Digest_from_str(text) ==
    LET parts == split_once(text)
        algorithm == AlgorithmName_from_str(parts[1])
    IN  IF ~algorithm.ok THEN NoDigest
        ELSE LET value == decode_value(output_len(algorithm.algorithm), parts[2])
             IN  IF ~value.ok THEN NoDigest
                 ELSE [ok |-> TRUE, algorithm |-> algorithm.algorithm,
                       value |-> value.value]

\* Display for Digest
Digest_fmt(digest) ==
    as_str(digest.algorithm) \o <<":">> \o
        (IF digest.algorithm = "Sha1" THEN BASE32_encode(digest.value)
         ELSE HEXLOWER_encode(digest.value))

\* The values of the digests: two for each length
DigestValues(n) ==
    {[i \in 1..n |-> (37 * i + 11) % 256], [i \in 1..n |-> 255 - (i % 2)]}

\* The letters of a text in both cases in turn
MixedCase(text) ==
    LET upper == to_ascii_uppercase(text)
        lower == to_ascii_lowercase(text)
    IN  [i \in 1..Len(text) |-> IF i % 2 = 1 THEN upper[i] ELSE lower[i]]

CaseVariants(text) ==
    {to_ascii_lowercase(text), to_ascii_uppercase(text), MixedCase(text)}

\* The labels of an algorithm: its name, and the name with a hyphen after
\* "sha" for sha1, sha256 and sha512, in any case
LabelVariants(a) ==
    UNION {CaseVariants(l) :
        l \in {as_str(a)} \cup
              (IF a \in {"Sha1", "Sha256", "Sha512"}
               THEN {<<"s", "h", "a", "-">> \o SubSeq(as_str(a), 4, Len(as_str(a)))}
               ELSE {})}

\* The texts of a value: hex, and base32 with and without padding, in
\* any case
ValueVariants(value) ==
    UNION {CaseVariants(t) :
        t \in {HEXLOWER_encode(value), BASE32_NOPAD_encode(value),
               BASE32_encode(value)}}

\* The texts that are not of a digest: a label that is not known, a value
\* of another length, a symbol of neither encoding, no value
BadDigestTexts ==
    {<<"s", "h", "a", "-", "2", "2", "4", ":", "0", "0">>,
     <<"m", "d", "5", ":", "0", "0">>,
     <<"c", "r", "c", "3", "2", ":", "0", "0", "0", "0", "0", "0", "0", "!">>,
     <<"c", "r", "c", "3", "2", ":", "a", "a", "a", "a", "a", "a", "b">>,
     <<"m", "d", "5">>}

\* In the specification of the digests format is the digest that the text
\* was written from (NoDigest for the other texts), stream the text given
\* to from_str, obs the digest parsed, event the text that to_string gave
\* and dec the digest parsed from it.
InitDigest ==
    /\ \/ \E a \in AlgorithmNames :
          \E value \in DigestValues(output_len(a)) :
          \E label \in LabelVariants(a) :
          \E text \in ValueVariants(value) :
             /\ format = [ok |-> TRUE, algorithm |-> a, value |-> value]
             /\ stream = label \o <<":">> \o text
       \/ /\ format = NoDigest
          /\ stream \in BadDigestTexts
    /\ pd = PushDecoder_new
    /\ wpos = 0
    /\ event = <<>>
    /\ obs = NoDigest
    /\ dec = NoDigest
    /\ enc = Encoder_new
    /\ call = NoCall

DigestFromStr ==
    /\ call.op = "none"
    /\ obs' = Digest_from_str(stream)
    /\ call' = IF Digest_from_str(stream).ok THEN Returned("from_str")
               ELSE Failed("from_str", "UnsupportedDigest")
    /\ UNCHANGED <<stream, format, pd, wpos, event, dec, enc>>

DigestToString ==
    /\ call.op = "from_str"
    /\ call.ok
    /\ event' = Digest_fmt(obs)
    /\ call' = Returned("to_string")
    /\ UNCHANGED <<stream, format, pd, wpos, obs, dec, enc>>

DigestReparse ==
    /\ call.op = "to_string"
    /\ dec' = Digest_from_str(event)
    /\ call' = Returned("reparse")
    /\ UNCHANGED <<stream, format, pd, wpos, event, obs, enc>>

NextDigest == DigestFromStr \/ DigestToString \/ DigestReparse

SpecDigest == InitDigest /\ [][NextDigest]_vars

\* The canonical text of a digest: the name of the algorithm in lower
\* case, then the value in base32 for sha1 and in lower case hex otherwise
CanonicalText(digest) ==
    as_str(digest.algorithm) \o <<":">> \o
        (IF digest.algorithm = "Sha1"
         THEN to_ascii_uppercase(BASE32_encode(digest.value))
         ELSE to_ascii_lowercase(HEXLOWER_encode(digest.value)))

LengthCases ==
    {[text |-> <<"0">>, n |-> 0],
     [text |-> <<"7">>, n |-> 7],
     [text |-> <<"1", "0">>, n |-> 10],
     [text |-> <<"0", "0", "7">>, n |-> 7],
     [text |-> <<"0", "0", "0", "0", "0", "0", "0", "0", "0", "0", "0", "0", "0", "0", "0", "0", "0", "0", "0", "0", "7">>, n |-> 7],
     [text |-> <<>>, n |-> -1],
     [text |-> <<"+", "7">>, n |-> -1],
     [text |-> <<"-", "7">>, n |-> -1],
     [text |-> <<"1", "_", "0">>, n |-> -1],
     [text |-> <<"7", "a">>, n |-> -1],
     [text |-> <<"0", "x", "7">>, n |-> -1],
     [text |-> <<"1", " ", "0">>, n |-> -1],
     [text |-> <<"1", "8", "4", "4", "6", "7", "4", "4", "0", "7", "3", "7", "0", "9", "5", "5", "1", "6", "1", "6">>, n |-> -1],
     [text |-> <<"9", "9", "9", "9", "9", "9", "9", "9", "9", "9", "9", "9", "9", "9", "9", "9", "9", "9", "9", "9">>, n |-> -1],
     [text |-> <<"1", "0", "0", "0", "0", "0", "0", "0", "0", "0", "0", "0", "0", "0", "0", "0", "0", "0", "0", "0", "0">>, n |-> -1],
     [text |-> <<"7", "0xff">>, n |-> 0 - 1]}

NoLength == [text |-> <<"n", "o", "n", "e">>, n |-> 0 - 1]

\* The length that a value is, by LengthCases
LengthOf(text) ==
    IF \E c \in LengthCases : c.text = text
    THEN (CHOOSE c \in LengthCases : c.text = text).n
    ELSE 0 - 1

\* The header with a value of Content-Length, or with another field only
LengthHeader(c) ==
    [ok |-> TRUE, version |-> VersionBytes,
     fields |-> IF c = NoLength
                THEN <<[name |-> <<"A">>, value |-> <<"b">>]>>
                ELSE <<[name |-> ContentLengthName, value |-> c.text]>>]

\* In the specification of Content-Length dec is the value of the header,
\* stream the bytes of the header as a file gives them, and call says what
\* content_length and write_header have returned.
InitLength ==
    /\ dec \in LengthCases \cup {NoLength}
    /\ stream = serialize(LengthHeader(dec))
    /\ format = "Identity"
    /\ pd = PushDecoder_new
    /\ wpos = 0
    /\ event = NoEvent
    /\ obs = ObsInit
    /\ enc = Encoder_new
    /\ call = NoCall

\* WarcHeader::content_length of the header
LenContentLength ==
    /\ call.op = "none"
    /\ call' = IF content_length(LengthHeader(dec)) < 0
               THEN Failed("content_length", "InvalidContentLength")
               ELSE [Returned("content_length")
                        EXCEPT !.value = content_length(LengthHeader(dec))]
    /\ UNCHANGED <<stream, format, pd, wpos, event, obs, dec, enc>>

\* Encoder::write_header of the header
LenWriteHeader ==
    /\ call.op = "content_length"
    /\ \E r \in {write_header(enc, LengthHeader(dec))} :
          /\ enc' = r.enc
          /\ call' = IF r.ok THEN Returned("write_header")
                     ELSE Failed("write_header", r.err)
    /\ UNCHANGED <<stream, format, pd, wpos, event, obs, dec>>

\* The decoder is given the bytes of the header
LenWrite(k) == call.op = "write_header" /\ wpos + k <= Len(stream) /\ Write(k)
LenGetEvent == call.op = "write_header" /\ GetEvent(Len(decoded(pd)))

NextLength ==
    \/ LenContentLength
    \/ LenWriteHeader
    \/ \E k \in {1, MaxChunk, Len(stream) - wpos} : LenWrite(k)
    \/ LenGetEvent

SpecLength == InitLength /\ [][NextLength]_vars

\* The value of Content-Length that the decoder finds in the bytes
ParsedLength ==
    FieldMap_get(WarcHeader_parse(stream).fields, ContentLengthName)

\* C23: content_length returns n when the header has a Content-Length of
\* ASCII digits only that is the number n of u64, and an error for every
\* other value and for no Content-Length; with an error write_header fails
\* and the decoder gives an error, no Header.
C23_ContentLength ==
    /\ call.op = "content_length" =>
          /\ call.ok <=> dec.n >= 0
          /\ call.ok => call.value = dec.n
    /\ call.op = "write_header" =>
          /\ call.ok <=> dec.n >= 0
          /\ call.ok => enc.state = "Block" /\ enc.length = dec.n
          /\ ~call.ok => enc.state = "Header"
    /\ event.kind = "Header" =>
          /\ ParsedLength # <<>>
          /\ LengthOf(ParsedLength[1]) >= 0
          /\ pd.block_length = LengthOf(ParsedLength[1])
    /\ event.kind = "Err" =>
          ParsedLength = <<>> \/ LengthOf(ParsedLength[1]) < 0

\* A Content-Length one above u64::MAX: content_length and write_header
\* have failed and the decoder has given an error
C23_Witness ==
    /\ dec.text = <<"1", "8", "4", "4", "6", "7", "4", "4", "0", "7", "3",
                    "7", "0", "9", "5", "5", "1", "6", "1", "6">>
    /\ call = Failed("write_header", "InvalidContentLength")
    /\ event = Err("InvalidContentLength")

MaxLines == 3       \* most field lines of a header that is parsed

\* The field lines: names that repeat, also in another case, and a line
\* that is no field line (a value of <<>> marks it)
FieldLines ==
    {[name |-> <<n>>, value |-> <<v>>] : n \in {"A", "a", "B"}, v \in {"1", "2"}}
        \cup {[name |-> <<"b", "a", "d">>, value |-> <<>>]}

IsFieldLine(line) == line.value # <<>>

LineBytes(line) ==
    IF IsFieldLine(line) THEN line.name \o <<":", SP>> \o line.value \o CRLF
    ELSE line.name \o CRLF

RECURSIVE LinesBytes(_)
LinesBytes(lines) ==
    IF lines = <<>> THEN <<>>
    ELSE LineBytes(lines[1]) \o LinesBytes(Tail(lines))

\* In the specification of WarcHeader::parse obs is the lines of the
\* header, stream its bytes and dec the header that parse has returned.
InitParse ==
    /\ obs \in UNION {[1..n -> FieldLines] : n \in 0..MaxLines}
    /\ stream = VersionBytes \o CRLF \o LinesBytes(obs) \o CRLF
    /\ format = "Identity"
    /\ pd = PushDecoder_new
    /\ wpos = 0
    /\ event = NoEvent
    /\ dec = NoHeader
    /\ enc = Encoder_new
    /\ call = NoCall

\* WarcHeader::parse of the bytes
ParseHeader ==
    /\ call.op = "none"
    /\ dec' = WarcHeader_parse(stream)
    /\ call' = IF WarcHeader_parse(stream).ok THEN Returned("parse")
               ELSE Failed("parse", "Parse")
    /\ UNCHANGED <<stream, format, pd, wpos, event, obs, enc>>

\* WarcHeader::serialize of the header that was parsed
SerializeParsed ==
    /\ call.op = "parse"
    /\ call.ok
    /\ event' = [Ev("Serialized") EXCEPT !.data = serialize(dec)]
    /\ call' = Returned("serialize")
    /\ UNCHANGED <<stream, format, pd, wpos, obs, dec, enc>>

NextParse == ParseHeader \/ SerializeParsed

SpecParse == InitParse /\ [][NextParse]_vars

\* C24: when parse returns a header, its fields are the field lines of the
\* input, one field for each line, in the order of the lines, repeated
\* names included; no line is missing.
C24_EveryFieldLine ==
    call.op = "parse" /\ call.ok =>
        /\ \A i \in 1..Len(obs) : IsFieldLine(obs[i])
        /\ dec.fields = obs

\* The versions, names and values of the headers given to validate, and
\* whether each is of its grammar: WARC/<digits>(.<digits>)* for the
\* version, a token for the name, field-content without a line ending for
\* the value
VersionCases ==
    {[text |-> <<"W", "A", "R", "C", "/", "1", ".", "1">>, ok |-> TRUE],
     [text |-> <<"W", "A", "R", "C", "/", "1">>, ok |-> TRUE],
     [text |-> <<"W", "A", "R", "C", "/", "1", "0", ".", "0", ".", "1">>, ok |-> TRUE],
     [text |-> <<"W", "A", "R", "C", "/">>, ok |-> FALSE],
     [text |-> <<"W", "A", "R", "C", "/", "1", ".">>, ok |-> FALSE],
     [text |-> <<"W", "A", "R", "C", "/", ".", "1">>, ok |-> FALSE],
     [text |-> <<"W", "A", "R", "C", "/", "1", ".", ".", "1">>, ok |-> FALSE],
     [text |-> <<"W", "A", "R", "C", "/", "1", ".", "1", SP, "x">>, ok |-> FALSE],
     [text |-> <<"W", "A", "R", "C", "/", "1", ".", "1", CR, LF, "X", ":", SP, "y">>, ok |-> FALSE],
     [text |-> <<"W", "A", "R", "C", "/", "1", ".", "1", LF>>, ok |-> FALSE],
     [text |-> <<"w", "a", "r", "c", "/", "1", ".", "1">>, ok |-> FALSE],
     [text |-> <<>>, ok |-> FALSE],
     [text |-> <<"H", "T", "T", "P", "/", "1", ".", "1">>, ok |-> FALSE]}

NameCases ==
    {[text |-> <<"A">>, ok |-> TRUE],
     [text |-> <<"W", "A", "R", "C", "-", "T", "y", "p", "e">>, ok |-> TRUE],
     [text |-> <<>>, ok |-> FALSE],
     [text |-> <<"A", SP, "b">>, ok |-> FALSE],
     [text |-> <<"A", ":">>, ok |-> FALSE],
     [text |-> <<"A", CR, LF, "B">>, ok |-> FALSE]}

ValueCases ==
    {[text |-> <<"1">>, ok |-> TRUE],
     [text |-> <<"a", SP, "b">>, ok |-> TRUE],
     [text |-> <<>>, ok |-> TRUE],
     [text |-> <<"a", CR, LF, "B", ":", SP, "c">>, ok |-> FALSE],
     [text |-> <<"a", LF, "b">>, ok |-> FALSE],
     [text |-> <<SP, "a">>, ok |-> FALSE],
     [text |-> <<"a", CR, "b">>, ok |-> FALSE]}

\* The header of a version, a name and a value, with a Content-Length
ValidateHeader(c) ==
    [ok |-> TRUE, version |-> c.version.text,
     fields |-> <<[name |-> c.name.text, value |-> c.value.text],
                  [name |-> ContentLengthName, value |-> <<"0">>]>>]

\* In the specification of validate dec is the version, name and value of
\* the header and obs the header.
InitValidate ==
    /\ dec \in [version : VersionCases, name : NameCases, value : ValueCases]
    /\ obs = ValidateHeader(dec)
    /\ stream = <<>>
    /\ format = "Identity"
    /\ pd = PushDecoder_new
    /\ wpos = 0
    /\ event = NoEvent
    /\ enc = Encoder_new
    /\ call = NoCall

\* WarcHeader::validate of the header
ValValidate ==
    /\ call.op = "none"
    /\ call' = IF validate(obs) THEN Returned("validate")
               ELSE Failed("validate", "Parse")
    /\ UNCHANGED <<stream, format, pd, wpos, event, obs, dec, enc>>

\* Encoder::write_header of the header
ValWriteHeader ==
    /\ call.op = "validate"
    /\ \E r \in {write_header(enc, obs)} :
          /\ enc' = r.enc
          /\ call' = IF r.ok THEN Returned("write_header")
                     ELSE Failed("write_header", r.err)
    /\ UNCHANGED <<stream, format, pd, wpos, event, obs, dec>>

NextValidate == ValValidate \/ ValWriteHeader

SpecValidate == InitValidate /\ [][NextValidate]_vars

HasLineEnding(text) == \E i \in 1..Len(text) : text[i] \in {CR, LF}

\* C25: write_header fails and the encoder stays in the state Header when
\* the version is not WARC/<digits>(.<digits>)* to its end, the name is no
\* token or the value is not of the grammar of a value of one line; no
\* version and no value with CR or LF is serialized.
C25_InvalidHeaderFails ==
    call.op = "write_header" =>
        /\ ~(dec.version.ok /\ dec.name.ok /\ dec.value.ok) =>
              ~call.ok /\ enc.state = "Header"
        /\ HasLineEnding(dec.version.text) \/ HasLineEnding(dec.value.text) =>
              enc.output = <<>>

\* io.rs BufferReader: [buffer, buffer_position, logical_position] over a
\* reader. The reader is the bytes of stream from wpos on; one read of it
\* gives any number of bytes from 1 up to the room and to what is left,
\* and 0 at the end.
ReaderBufferLen == 2    \* IO_BUFFER_LENGTH of io.rs (4096), scaled
MaxSource == 6          \* the bytes of the source
MaxReadBuf == 3         \* the longest buffer given to read

\* BufferReader::new
BufferReader_new ==
    [buffer |-> <<>>, buffer_position |-> 0, logical_position |-> 0]

\* BufferReader::buffer
buffer(r) == SubSeq(r.buffer, r.buffer_position + 1, Len(r.buffer))

\* The numbers of bytes that a read of the source into room bytes can give
SourceReads(room) ==
    IF room = 0 \/ wpos = Len(stream) THEN {0}
    ELSE 1..Min(room, Len(stream) - wpos)

\* BufferReader::fill_buffer when the source gives k bytes
fill_buffer(r, k) ==
    [r EXCEPT !.buffer = @ \o SubSeq(stream, wpos + 1, wpos + k)]

\* A compact_buffer that forgets to drain
Mutant_compact_buffer(r) == [r EXCEPT !.buffer_position = 0]

\* BufferReader::compact_buffer
compact_buffer(r) ==
    [r EXCEPT !.buffer = SubSeq(@, r.buffer_position + 1, Len(@)),
              !.buffer_position = 0]

\* BufferReader::clean_up_buffer
clean_up_buffer(r) ==
    IF r.buffer_position >= Len(r.buffer)
    THEN [r EXCEPT !.buffer = <<>>, !.buffer_position = 0]
    ELSE IF r.buffer_position > ReaderBufferLen THEN compact_buffer(r)
    ELSE r

\* BufferReader::read_using_buffer of n bytes, after fill_buffer_if_empty:
\* [r, data]
read_using_buffer(r, n) ==
    LET upper == Min(Len(r.buffer), r.buffer_position + n)
    IN  [r |-> clean_up_buffer([r EXCEPT !.buffer_position = upper]),
         data |-> SubSeq(r.buffer, r.buffer_position + 1, upper)]

\* BufRead::consume
consume(r, amt) ==
    clean_up_buffer([r EXCEPT !.buffer_position = @ + amt,
                              !.logical_position = @ + amt])

\* In the specification of the BufferReader obs is the BufferReader,
\* stream the source, wpos the bytes read from the source and dec the
\* bytes handed to the caller: those that read has given and those of
\* buffer() that consume has passed, and the sum of what read has
\* returned and consume was given.
InitReader ==
    /\ stream = [i \in 1..MaxSource |-> i]
    /\ wpos = 0
    /\ obs = BufferReader_new
    /\ dec = [handed |-> <<>>, returned |-> 0]
    /\ format = "Identity"
    /\ pd = PushDecoder_new
    /\ event = NoEvent
    /\ enc = Encoder_new
    /\ call = NoCall

\* Read::read into a buffer of n bytes: straight from the source when the
\* buffer is long and nothing is buffered, else through the buffer, which
\* is filled first when it is empty
ReaderRead(n) ==
    /\ IF n >= ReaderBufferLen /\ obs.buffer = <<>>
       THEN \E k \in SourceReads(n) :
              /\ obs' = [obs EXCEPT !.logical_position = @ + k]
              /\ wpos' = wpos + k
              /\ dec' = [handed |-> dec.handed \o SubSeq(stream, wpos + 1, wpos + k),
                         returned |-> dec.returned + k]
              /\ call' = [Returned("read") EXCEPT !.value = k, !.flag = TRUE]
       ELSE \E k \in (IF obs.buffer = <<>> THEN SourceReads(ReaderBufferLen)
                      ELSE {0}) :
            \E x \in {read_using_buffer(fill_buffer(obs, k), n)} :
              /\ obs' = [x.r EXCEPT !.logical_position = @ + Len(x.data)]
              /\ wpos' = wpos + k
              /\ dec' = [handed |-> dec.handed \o x.data,
                         returned |-> dec.returned + Len(x.data)]
              /\ call' = [Returned("read") EXCEPT !.value = Len(x.data)]
    /\ UNCHANGED <<stream, format, pd, event, enc>>

\* BufferReader::fill_buffer
ReaderFillBuffer ==
    /\ Len(obs.buffer) <= 2 * ReaderBufferLen
    /\ \E k \in SourceReads(ReaderBufferLen) :
          /\ obs' = fill_buffer(obs, k)
          /\ wpos' = wpos + k
          /\ call' = [Returned("fill_buffer") EXCEPT !.value = k]
    /\ UNCHANGED <<stream, format, pd, event, dec, enc>>

\* BufRead::fill_buf
ReaderFillBuf ==
    /\ \E k \in (IF obs.buffer = <<>> THEN SourceReads(ReaderBufferLen)
                 ELSE {0}) :
          /\ obs' = fill_buffer(obs, k)
          /\ wpos' = wpos + k
          /\ call' = [Returned("fill_buf") EXCEPT !.value = Len(buffer(fill_buffer(obs, k)))]
    /\ UNCHANGED <<stream, format, pd, event, dec, enc>>

\* BufRead::consume of amt bytes of buffer()
ReaderConsume(amt) ==
    /\ amt <= Len(buffer(obs))
    /\ obs' = consume(obs, amt)
    /\ dec' = [handed |-> dec.handed \o SubSeq(buffer(obs), 1, amt),
               returned |-> dec.returned + amt]
    /\ call' = [Returned("consume") EXCEPT !.value = amt]
    /\ UNCHANGED <<stream, format, pd, wpos, event, enc>>

NextReader ==
    \/ \E n \in 0..MaxReadBuf : ReaderRead(n)
    \/ ReaderFillBuffer
    \/ ReaderFillBuf
    \/ \E amt \in 0..(2 * ReaderBufferLen) : ReaderConsume(amt)

SpecReader == InitReader /\ [][NextReader]_vars

\* C26: the bytes handed to the caller are the bytes of the source in
\* order, none lost and none twice: with the bytes still buffered they are
\* what was read from the source; logical_position is the sum of what read
\* has returned and consume was given, and it never goes down.
C26_BufferReader ==
    /\ [](/\ dec.handed \o buffer(obs) = SubSeq(stream, 1, wpos)
          /\ obs.logical_position = dec.returned
          /\ dec.returned = Len(dec.handed))
    /\ [][obs'.logical_position >= obs.logical_position]_vars

\* The whole source has been handed over, the last bytes by a read that
\* went straight to the source, past the buffer
C26_Witness ==
    /\ dec.handed = stream
    /\ call.op = "read"
    /\ call.flag
    /\ obs.logical_position = MaxSource

----------------------------------------------------------------------------
(* PushDecoder::reset used after seeking.  The caller decodes a file of    *)
(* whole records, at some point seeks to the start of a record (of a       *)
(* member, for gzip), calls reset and goes on writing the bytes from       *)
(* there.  call.remain tells that reset was called, call.ok what it        *)
(* returned, call.err whether decoded bytes handed out by the last event   *)
(* were still referenced, call.value the offset sought, call.flag that the *)
(* last get_event was the first call after reset; obs observes the events  *)
(* that follow the reset.                                                  *)

ResetFiles ==
    { IdentityFile(<<Rec(<<"a", "b">>)>>, 0, <<>>),
      GzipRatFile(<<Rec(<<"a", "b">>), Rec(<<>>)>>) }

InitReset ==
    /\ \E f \in ResetFiles : stream = f.bytes /\ format = f.format
    /\ pd = PushDecoder_new
    /\ wpos = 0
    /\ event = NoEvent
    /\ obs = ObsInit
    /\ dec = NoDecoder
    /\ enc = Encoder_new
    /\ call = NoCall

\* file seek to the record-th record, then reset
Reset(record) ==
    /\ Running
    /\ ~call.remain
    /\ ~pd.input_eof
    /\ record \in 1..Len(File.offsets)
    /\ \E r \in {reset(format, pd)} :
          /\ pd' = r.pd
          /\ event' = IF r.ok THEN NoEvent ELSE Err("Io")
          /\ call' = [NoCall EXCEPT !.op = "reset", !.ok = r.ok,
                                    !.remain = TRUE,
                                    !.err = IF pd.buf_output_reference_len = 0
                                            THEN "None" ELSE "Referenced",
                                    !.value = File.offsets[record]]
    /\ wpos' = File.offsets[record]
    /\ obs' = ObsInit
    /\ UNCHANGED <<stream, format, dec, enc>>

ResetGetEvent(slice0_len) ==
    /\ Running
    /\ \E r \in {get_event(format, pd, slice0_len)} :
          /\ pd' = r.pd
          /\ event' = r.ev
          /\ obs' = Observe(obs, r.ev, r.pd)
    /\ call' = [call EXCEPT !.op = "get_event",
                            !.flag = call.op = "reset" /\ wpos = call.value]
    /\ UNCHANGED <<stream, format, wpos, dec, enc>>

NextReset ==
    \/ \E k \in ChunkLens : Write(k)
    \/ WriteEof
    \/ \E s \in Slice0Lens(decoded(pd)) \cup {1} : ResetGetEvent(s)
    \/ \E record \in 1..MaxRecords : Reset(record)

SpecReset == InitReset /\ [][NextReset]_vars

\* The record the events after the reset belong to
ResetRecord ==
    LET first == CHOOSE i \in 1..Len(File.offsets) :
                    File.offsets[i] = call.value
    IN  File.records[first + obs.recno - 1]

\* C27: reset may be called in any state, also directly after a BlockData
\* event: it returns Ok, afterwards no input and no decoded output is
\* buffered, a get_event that follows at once reports Ready, and the bytes
\* written after the reset are decoded from their first byte: no event is an
\* error, the events come in order, and each record reported is the record
\* of the file that starts where the bytes written start.
C27_Reset ==
    call.remain =>
        /\ call.ok
        /\ (call.op = "reset" /\ wpos = call.value) =>
              decoded(pd) = <<>> /\ pd.deferred_input_buf = <<>>
        /\ call.flag => event.kind = "Ready"
        /\ event.kind # "Err"
        /\ obs.phase # "bad"
        /\ obs.phase = "open" =>
              /\ obs.n = Len(ResetRecord.block)
              /\ IsPrefix(obs.got, ResetRecord.block)

----------------------------------------------------------------------------
(* Verifier::begin_record on headers that do not conform.  obs is a        *)
(* Verifier with every check switched on, stream the record fed to it.     *)

BeginHeaders ==
    {[WarcHeader_empty EXCEPT
        !["WARC-Record-ID"] = id, !["WARC-Type"] = type,
        !["Content-Length"] = length, !["WARC-Date"] = date,
        !["WARC-Segment-Number"] = number,
        !["WARC-Segment-Origin-ID"] = origin,
        !["WARC-Segment-Total-Length"] = total,
        !["WARC-Target-URI"] = uri] :
        id \in {<<>>, <<1>>},
        type \in {<<>>, <<"response">>, <<"continuation">>, <<"bogus">>,
                  <<"warcinfo">>},
        uri \in {<<>>, <<Url("http://a/", FALSE)>>, <<Url("no scheme", TRUE)>>},
        length \in {<<>>, <<Malformed>>, <<3>>},
        date \in {<<>>, <<"2024-01-01T00:00:00Z">>, <<"yesterday">>},
        number \in {<<>>, <<Malformed>>, <<1>>, <<2>>},
        origin \in {<<>>, <<1>>},
        total \in {<<>>, <<Malformed>>, <<7>>}}

InitBegin ==
    /\ stream = <<>>
    /\ format = "Any"
    /\ pd = PushDecoder_new
    /\ wpos = 0
    /\ event = NoEvent
    /\ obs = Verifier_new
    /\ dec = NoDecoder
    /\ enc = Encoder_new
    /\ call = NoCall

\* begin_record of any header; a panic is reported as a call that failed
BeginAny(header) ==
    /\ call.op = "none"
    /\ \E v \in {begin_record(obs, header)} :
          /\ obs' = v
          /\ call' = IF v.panicked THEN Failed("begin_record", "Panic")
                     ELSE Returned("begin_record")
    /\ stream' = Append(stream, [header |-> header, data |-> <<>>])
    /\ UNCHANGED <<format, pd, wpos, event, dec, enc>>

BeginEndRecord ==
    /\ call.op = "begin_record"
    /\ call.ok
    /\ obs' = end_record(obs)
    /\ call' = [Returned("end_record") EXCEPT !.value = Len(obs.problems)]
    /\ UNCHANGED <<stream, format, pd, wpos, event, dec, enc>>

BeginVerifyEnd ==
    /\ call.op \in {"end_record", "verify_end"}
    /\ obs' = verify_end(obs)
    /\ call' = [Returned("verify_end") EXCEPT !.flag = VerifyDone(verify_end(obs))]
    /\ UNCHANGED <<stream, format, pd, wpos, event, dec, enc>>

NextBegin ==
    \/ \E header \in BeginHeaders : BeginAny(header)
    \/ BeginEndRecord
    \/ BeginVerifyEnd

SpecBegin == InitBegin /\ [][NextBegin]_vars

\* C28: begin_record of any header returns Ok and does not panic, also for a
\* header with WARC-Segment-Number whose Content-Length is missing or is no
\* number; the record is put into the table of records, and a missing
\* Content-Length is among the problems as RequiredFieldMissing.
C28_BeginRecordNeverPanics ==
    call.op = "begin_record" =>
        /\ call.ok
        /\ ~obs.panicked
        /\ record_id(obs) \in obs.records
        /\ ~contains_name(obs.header, "Content-Length") =>
              CountOf(record_id(obs), <<"RequiredFieldMissing", "Content-Length">>) = 1

----------------------------------------------------------------------------
(* The bytes of one record of the encoder *)

\* The bytes of the block: the bytes of the buffers, which hold no CR or LF
BlockBytesOf(bytes) ==
    \A i \in 1..Len(bytes) : \E j \in 1..Len(Letters) : bytes[i] = Letters[j]

\* C29: whatever the calls of write were (buffers of any length, empty ones
\* and ones longer than what is left of the declared length), when
\* finish_block has succeeded the bytes written after the header of the
\* record are Content-Length bytes of the block and one "\r\n\r\n"; written
\* is never more than the declared length.
C29_BlockAndOneBoundary ==
    /\ enc.written <= enc.length
    /\ call.op = "finish_block" /\ call.ok =>
          /\ Len(AfterHeader) = enc.length + 4
          /\ BlockBytesOf(SubSeq(AfterHeader, 1, enc.length))
          /\ SubSeq(AfterHeader, enc.length + 1, enc.length + 4) = CRLF \o CRLF

----------------------------------------------------------------------------
(* Termination of the operations of the pull Decoder, on the files of      *)
(* SpecPull and on files that end in the middle of a record.  An action of *)
(* NextPull is one turn of the loop of an operation, and dec.op names the  *)
(* operation whose loop is running.  A turn that leaves every variable as  *)
(* it is, is a turn the loop repeats for ever: the decoder, the source and *)
(* the event are those of the turn before.                                 *)

\* A turn of the loop of read_header or of read_block_impl that changes
\* nothing: the source is at its end, the event is the event of the turn
\* before, which asks for data, and write_eof was called already.
SameTurn(slice0_len) ==
    \E g \in {get_event(format, pd, slice0_len)} :
    \E r \in {read_into_push_decoder(g.pd, 0)} :
        /\ wpos = Len(stream)
        /\ \/ dec.op = "read_header" /\ g.ev.kind \in {"Ready", "WantData"}
           \/ dec.op = "read" /\ g.ev.kind = "WantData"
        /\ r.ok
        /\ r.pd = pd
        /\ g.ev = event
        /\ Observe(obs, g.ev, g.pd) = obs

\* The loop that is running gets on: a turn of it changes the state
PullTurnEnabled ==
    /\ dec.op # "idle"
    /\ \E s \in Slice0Lens(decoded(pd)) : ~SameTurn(s)

InitPullEof ==
    /\ \E f \in Files \cup TruncatedFiles :
          stream = f.bytes /\ format = f.format
    /\ pd = PushDecoder_new
    /\ wpos = 0
    /\ event = NoEvent
    /\ obs = ObsInit
    /\ dec = NoDecoder
    /\ enc = Encoder_new
    /\ call = NoCall

SpecPullEof == InitPullEof /\ [][NextPull]_vars

\* C30: on a finite source every operation of the pull Decoder returns:
\* the loop of read_header, of read and of finish_block never comes to a
\* turn that it repeats for ever, also when the source is at its end in the
\* middle of a header, of a block or of the record boundary; as long as an
\* operation has not returned, the next turn of its loop changes the state
\* of the decoder or of the source.
C30_OperationsTerminate == dec.op # "idle" => PullTurnEnabled

----------------------------------------------------------------------------
(* The events of the push decoder and the splitting of its input.  The     *)
(* reference is the run that writes the whole file in one write_all, calls *)
(* write_eof and then calls get_event until the decoder is finished, has   *)
(* failed or asks for data: its result is the records reported, each with  *)
(* its header, the bytes of its block and whether EndRecord was reported,  *)
(* and the first error.                                                    *)

NoRun == [records |-> <<>>, err |-> "None"]

\* The result after one more event
Reported(sofar, ev) ==
    CASE ev.kind = "Header" ->
           [sofar EXCEPT !.records =
              Append(@, [header |-> ev.header, got |-> <<>>, ended |-> FALSE])]
      [] ev.kind = "BlockData" ->
           [sofar EXCEPT !.records[Len(sofar.records)].got = @ \o ev.data]
      [] ev.kind = "EndRecord" ->
           [sofar EXCEPT !.records[Len(sofar.records)].ended = TRUE]
      [] ev.kind = "Err" -> [sofar EXCEPT !.err = ev.err]
      [] OTHER -> sofar

\* get_event until Finished, an error, or a request for data
RECURSIVE WholeEvents(_, _, _)
WholeEvents(fmt, p, sofar) ==
    LET r == get_event(fmt, p, Len(decoded(p)))
    IN  IF r.ev.kind \in {"Finished", "WantData", "Ready"} THEN sofar
        ELSE IF r.ev.kind = "Err" THEN Reported(sofar, r.ev)
        ELSE WholeEvents(fmt, r.pd, Reported(sofar, r.ev))

\* The run of the whole file f written at once
WholeRun(f) ==
    LET w == write_all(f.format, PushDecoder_new, f.bytes)
    IN  IF ~w.ok THEN [NoRun EXCEPT !.err = "Io"]
        ELSE WholeEvents(f.format, write_eof(w.pd), NoRun)

\* C31: whatever the splitting of the file into writes and wherever
\* get_event is called between them, what the decoder has reported so far is
\* the beginning of what it reports for the file written at once: the same
\* headers in the same order, for each record bytes of the same block and
\* EndRecord after the same bytes, and an error, if one is returned, that is
\* the same error after the same events.  (A write_eof before the last
\* byte of the file makes the input another one, the bytes written.)
C31_SplitIndependent ==
    (pd.input_eof => wpos = Len(stream)) =>
    \E whole \in {WholeRun(File)} :
        /\ obs.recno <= Len(whole.records)
        /\ obs.recno > 0 =>
              /\ IsPrefix(obs.got, whole.records[obs.recno].got)
              /\ obs.phase = "idle" =>
                    /\ whole.records[obs.recno].ended
                    /\ obs.got = whole.records[obs.recno].got
        /\ event.kind = "Header" =>
              event.header = whole.records[obs.recno].header
        /\ event.kind = "Err" =>
              /\ event.err = whole.err
              /\ obs.recno = Len(whole.records)
              /\ obs.recno > 0 => obs.got = whole.records[obs.recno].got

----------------------------------------------------------------------------
(* get_event called again.  The caller of SpecPush that goes on calling    *)
(* get_event after an error: dec holds the decoder and the event before    *)
(* the last get_event, and again tells that the call before it was a       *)
(* get_event too, with no write or write_eof between the two.              *)

InitRetry ==
    /\ \E f \in Files : stream = f.bytes /\ format = f.format
    /\ pd = PushDecoder_new
    /\ wpos = 0
    /\ event = NoEvent
    /\ obs = ObsInit
    /\ dec = [pd |-> PushDecoder_new, event |-> NoEvent, again |-> FALSE]
    /\ enc = Encoder_new
    /\ call = NoCall

RetryWrite(k) ==
    /\ Running
    /\ ~pd.input_eof
    /\ wpos + k <= Len(stream)
    /\ \E w \in {write_all(format, pd, SubSeq(stream, wpos + 1, wpos + k))} :
          /\ pd' = w.pd
          /\ event' = IF w.ok THEN event ELSE Err("Io")
    /\ wpos' = wpos + k
    /\ call' = Returned("write")
    /\ UNCHANGED <<stream, format, obs, dec, enc>>

RetryWriteEof ==
    /\ Running
    /\ ~pd.input_eof
    /\ pd' = write_eof(pd)
    /\ call' = Returned("write_eof")
    /\ UNCHANGED <<stream, format, wpos, event, obs, dec, enc>>

\* get_event, also after an error; a panic ends the run
RetryGetEvent(slice0_len) ==
    /\ event.kind # "Finished"
    /\ event.err # "Panic"
    /\ \E r \in {get_event(format, pd, slice0_len)} :
          /\ pd' = r.pd
          /\ event' = r.ev
          /\ obs' = Observe(obs, r.ev, r.pd)
    /\ dec' = [pd |-> pd, event |-> event, again |-> call.op = "get_event"]
    /\ call' = Returned("get_event")
    /\ UNCHANGED <<stream, format, wpos, enc>>

NextRetry ==
    \/ \E k \in ChunkLens : RetryWrite(k)
    \/ RetryWriteEof
    \/ \E s \in Slice0Lens(decoded(pd)) : RetryGetEvent(s)

SpecRetry == InitRetry /\ [][NextRetry]_vars

\* C32: a get_event that follows, with no write and no write_eof between, a
\* get_event that returned WantData returns WantData again and leaves the
\* decoder as it was, in every field; one that follows a get_event that
\* returned an error returns the same error.
C32_GetEventAgain ==
    call.op = "get_event" /\ dec.again =>
        /\ dec.event.kind = "WantData" =>
              event.kind = "WantData" /\ pd = dec.pd
        /\ dec.event.kind = "Err" => event = dec.event

----------------------------------------------------------------------------
(* has_record_at_time_compression_fault *)

\* PushDecoder::has_record_at_time_compression_fault
has_record_at_time_compression_fault(p) == p.has_rat_comp_fault

\* C33: the fault becomes true only with a format that supports
\* concatenation and only in the get_event at the end of a record that finds
\* decoded bytes buffered behind the record boundary; a record that ends
\* with nothing buffered sets no fault; the fault is never set for identity
\* input, and once set it stays set.
C33_RecordAtTimeFault ==
    /\ [](is_identity(format) => ~has_record_at_time_compression_fault(pd))
    /\ [][/\ has_record_at_time_compression_fault(pd) =>
                has_record_at_time_compression_fault(pd')
          /\ ~has_record_at_time_compression_fault(pd)
                /\ has_record_at_time_compression_fault(pd') =>
                   /\ supports_concatenation(format)
                   /\ pd.state = "EndOfSegment"
                   /\ decoded(pd) # <<>>
          /\ pd.state = "EndOfSegment" /\ decoded(pd) = <<>> =>
                has_record_at_time_compression_fault(pd') =
                   has_record_at_time_compression_fault(pd)]_vars

\* The fault is set after the first record of a gzip file that holds its
\* records in one member, and the second record has been reported
C33_Witness ==
    /\ has_record_at_time_compression_fault(pd)
    /\ ~File.rat
    /\ obs.recno = 2
    /\ event.kind = "EndRecord"

----------------------------------------------------------------------------
(* compress/zstd.rs: extract_warc_zst_dictionary, and the dictionary frame *)
(* given to the ZstdPushDecoder.  In SpecDict stream is the input, dec the *)
(* ZstdPushDecoder, wpos the bytes it has taken, obs the result of          *)
(* extract_warc_zst_dictionary over the same input.                         *)

\* extract_warc_zst_dictionary: [ok, err, data]
extract_warc_zst_dictionary(input) ==
    LET fail(err) == [ok |-> FALSE, err |-> err, data |-> <<>>]
        magic_number == SubSeq(input, 1, 4)
        length == from_le_bytes(SubSeq(input, 5, 8))
        buf == SubSeq(input, 9, 8 + length)
        buf2 == bulk_decompress(buf)
    IN  IF Len(input) < 8 THEN fail("Other")
        ELSE IF length > BULK_BUFFER_LENGTH THEN fail("TooLarge")
        ELSE IF magic_number # WarcDictMagic THEN fail("NotDict")
        ELSE IF Len(input) < 8 + length THEN fail("Other")
        ELSE IF starts_with(buf, ZstdMagic)
        THEN IF buf2.ok THEN [ok |-> TRUE, err |-> "None", data |-> buf2.data]
             ELSE fail("Other")
        ELSE [ok |-> TRUE, err |-> "None", data |-> buf]

MaxOverDict == 2    \* most bytes a declared length is over BULK_BUFFER_LENGTH

\* n bytes of a dictionary
RECURSIVE DictBytes(_)
DictBytes(n) == IF n <= 0 THEN <<>> ELSE Append(DictBytes(n - 1), "a")

\* The inputs: a dictionary frame or another skippable frame, of every
\* declared length up to MaxOverDict over the limit, with all its payload
\* or cut one byte short, followed by a zstd frame; and the frame of a
\* compressed dictionary.
DictInputs ==
    {magic \o to_le_bytes(n) \o DictBytes(n - short) \o tail :
        magic \in {WarcDictMagic, <<"P", "*", "M", "0x18">>},
        n \in {0, 1, BULK_BUFFER_LENGTH - 1, BULK_BUFFER_LENGTH}
              \cup ((BULK_BUFFER_LENGTH + 1)..(BULK_BUFFER_LENGTH + MaxOverDict)),
        short \in {0, 1},
        tail \in {<<>>, bulk_compress(<<"b">>)}}
    \cup {WarcDictFrame(bulk_compress(<<"a">>)) \o bulk_compress(<<"b">>)}

InitDict ==
    /\ stream \in DictInputs
    /\ format = "Zstandard"
    /\ pd = PushDecoder_new
    /\ wpos = 0
    /\ event = NoEvent
    /\ obs = [called |-> FALSE, ok |-> TRUE, err |-> "None", data |-> <<>>]
    /\ dec = ZstdPushDecoder_new(WarcZstd(<<>>))
    /\ enc = Encoder_new
    /\ call = NoCall

\* extract_warc_zst_dictionary over the input
DictExtract ==
    /\ ~obs.called
    /\ \E r \in {extract_warc_zst_dictionary(stream)} :
          obs' = [called |-> TRUE, ok |-> r.ok, err |-> r.err, data |-> r.data]
    /\ UNCHANGED <<stream, format, pd, wpos, event, dec, enc, call>>

\* One write of the next k bytes of the input to the ZstdPushDecoder
DictWrite(k) ==
    /\ call.ok
    /\ wpos < Len(stream)
    /\ \E r \in {ZstdPushDecoder_write(dec,
                    SubSeq(stream, wpos + 1, Min(Len(stream), wpos + k)))} :
          /\ dec' = r.d
          /\ wpos' = wpos + r.n
          /\ call' = IF r.ok
                     THEN [Returned("decoder_write") EXCEPT !.value = r.n]
                     ELSE Failed("decoder_write", "Io")
    /\ UNCHANGED <<stream, format, pd, event, obs, enc>>

NextDict ==
    \/ DictExtract
    \/ \E k \in ZstdChunkLens : DictWrite(k)

SpecDict == InitDict /\ [][NextDict]_vars

\* The input is a dictionary frame that declares more than the limit
DictTooLarge ==
    /\ SubSeq(stream, 1, 4) = WarcDictMagic
    /\ from_le_bytes(SubSeq(stream, 5, 8)) > BULK_BUFFER_LENGTH

\* C34: a dictionary frame that declares more than BULK_BUFFER_LENGTH bytes
\* is refused by extract_warc_zst_dictionary, and by the push decoder in
\* the write that reads its length, so that the decoder takes none of its
\* payload; the dictionary the decoder holds is never longer than
\* BULK_BUFFER_LENGTH.
C34_DictionaryTooLarge ==
    /\ DictTooLarge /\ obs.called => ~obs.ok /\ obs.err = "TooLarge"
    /\ DictTooLarge /\ wpos >= 8 => ~call.ok /\ wpos = 8
    /\ Len(dec.dictionary.data) <= BULK_BUFFER_LENGTH
    /\ Len(obs.data) <= BULK_BUFFER_LENGTH

----------------------------------------------------------------------------
(* Verifier: the problems of verify_end over more than one batch *)

\* The problems of a kind that name a record
ProblemsOfRecord(name, id) ==
    {i \in ProblemsOf(name) : obs.problems[i].record_id = id}

\* C35: over all the calls of verify_end, MissingSegment(n) of an origin is
\* reported at most once for each n, MismatchedSegmentLength of an origin
\* at most once, and ReferencedRecordMissing(target) of a record at most
\* once for each reference of the record to the target that was queued;
\* also when the tables hold more keys than one call looks at.
C35_ReportedOnce ==
    /\ \A origin \in 0..MaxId, n \in 0..(MaxSegment + 1) :
          CountOf(origin, <<"MissingSegment", n>>) <= 1
    /\ \A origin \in 0..MaxId :
          Cardinality(ProblemsOfRecord("MismatchedSegmentLength", origin)) <= 1
    /\ \A id \in 0..MaxId, target \in 0..MaxId :
          CountOf(id, <<"ReferencedRecordMissing", target>>) <=
             Cardinality({r \in obs.id_references : r[1] = id /\ r[2] = target})

----------------------------------------------------------------------------
(* app/verify.rs: verify uses one Verifier for all its input files: after  *)
(* verify_end has returned Done for a file, begin_record is called for the *)
(* records of the next.  In SpecReuse obs is the Verifier, stream the      *)
(* records fed, and dec what the Verifier held when verify_end returned    *)
(* Done for the first time: dones counts the Done returned, up to 2.       *)

NoReuse == [dones |-> 0, id_references |-> {}, segment_lengths |-> {}, problems |-> 0]

InitReuse ==
    /\ stream = <<>>
    /\ format \in {"References", "Segments"}
    /\ pd = PushDecoder_new
    /\ wpos = 0
    /\ event = NoEvent
    /\ obs = [Verifier_new EXCEPT !.checks = @ \ {"MandatoryFields", "TargetUri"}]
    /\ dec = NoReuse
    /\ enc = Encoder_new
    /\ call = NoCall

\* begin_record, also after verify_end has returned Done
ReuseBeginRecord(header) ==
    /\ \/ call.op \in {"none", "end_record"}
       \/ call.op = "verify_end" /\ call.flag
    /\ Len(stream) < MaxFed
    /\ obs' = begin_record(obs, header)
    /\ stream' = Append(stream, [header |-> header, data |-> <<>>])
    /\ call' = Returned("begin_record")
    /\ UNCHANGED <<format, pd, wpos, event, dec, enc>>

ReuseEndRecord ==
    /\ call.op = "begin_record"
    /\ obs' = end_record(obs)
    /\ call' = Returned("end_record")
    /\ UNCHANGED <<stream, format, pd, wpos, event, dec, enc>>

\* verify_end at the end of a file: call.flag is Done
ReuseVerifyEnd ==
    /\ \/ call.op = "end_record"
       \/ call.op = "verify_end" /\ ~call.flag
    /\ \E v \in {verify_end(obs)} :
          /\ obs' = v
          /\ call' = [Returned("verify_end") EXCEPT !.flag = VerifyDone(v)]
          /\ dec' = IF ~VerifyDone(v) THEN dec
                    ELSE IF dec.dones = 0
                    THEN [dones |-> 1, id_references |-> v.id_references,
                          segment_lengths |-> v.segment_lengths,
                          problems |-> Len(v.problems)]
                    ELSE [dec EXCEPT !.dones = 2]
    /\ UNCHANGED <<stream, format, pd, wpos, event, enc>>

NextReuse ==
    \/ \E header \in VerifyHeaders : ReuseBeginRecord(header)
    \/ ReuseEndRecord
    \/ ReuseVerifyEnd

SpecReuse == InitReuse /\ [][NextReuse]_vars

\* The problems reported after the first Done
LaterProblems(name) == {i \in ProblemsOf(name) : i > dec.problems}

\* The sum of the lengths of a set of entries of the table of the segments
RECURSIVE LengthsOf(_)
LengthsOf(entries) ==
    IF entries = {} THEN 0
    ELSE LET e == CHOOSE e \in entries : TRUE
         IN  e[3] + LengthsOf(entries \ {e})

\* C36: when verify_end has returned Done again for a Verifier that was
\* given more records after its first Done, the problems reported since
\* hold ReferencedRecordMissing for every reference queued since whose
\* target was never fed, and MismatchedSegmentLength for every origin whose
\* total length was declared since and is not the sum of its segments.
C36_ReusedVerifierReports ==
    call.op = "verify_end" /\ call.flag /\ dec.dones = 2 =>
        /\ \A r \in obs.id_references \ dec.id_references :
              r[2] \notin FedIds =>
                 \E i \in LaterProblems("ReferencedRecordMissing") :
                    /\ obs.problems[i].record_id = r[1]
                    /\ obs.problems[i].kind[2] = r[2]
        /\ \A e \in obs.segment_lengths :
              /\ e[1] \notin {d[1] : d \in dec.segment_lengths}
              /\ e[2] # LengthsOf({g \in obs.segments : g[1] = e[1] /\ g[2] >= 1})
              => \E i \in LaterProblems("MismatchedSegmentLength") :
                    obs.problems[i].record_id = e[1]

----------------------------------------------------------------------------
(* Verifier: the prohibited fields of one record *)

\* The number of the problems of a kind
ProblemCount(kind) ==
    Cardinality({i \in 1..Len(obs.problems) : obs.problems[i].kind = kind})

\* C37: begin_record of one record with every check switched on reports
\* ProhibitedField(name) at most once for each name, and for a warcinfo
\* record with WARC-Target-URI it reports ProhibitedField(WARC-Target-URI)
\* once.
C37_ProhibitedFieldOnce ==
    call.op = "begin_record" /\ Len(stream) = 1 =>
        /\ \A name \in FieldNames : ProblemCount(<<"ProhibitedField", name>>) <= 1
        /\ /\ record_type(obs) = "warcinfo"
           /\ contains_name(obs.header, "WARC-Target-URI")
           => ProblemCount(<<"ProhibitedField", "WARC-Target-URI">>) = 1

----------------------------------------------------------------------------
(* Encoder::write_header that fails *)

\* C38: a write_header that returns an error, for a header that is not
\* valid or one whose Content-Length is missing or is no number, has
\* written no byte to the output of the encoder.
C38_FailedHeaderWritesNothing ==
    [][call'.op = "write_header" /\ ~call'.ok => enc'.output = enc.output]_vars

----------------------------------------------------------------------------
(* http/h1/codec/chunked.rs: ChunkedEncoder and ChunkedDecoder.  The bytes *)
(* of the model are the graphic characters, the space, CR and LF.  In      *)
(* SpecChunked stream is the chunked body, wpos the bytes of it given to   *)
(* transform, dec the ChunkedDecoder, obs.output and obs.trailer what      *)
(* transform and remaining_trailer have written, obs.body says how the     *)
(* body was made.                                                           *)

HexDigits ==
    <<"0", "1", "2", "3", "4", "5", "6", "7", "8", "9", "a", "b", "c", "d", "e", "f">>
UpperHexDigits == <<"A", "B", "C", "D", "E", "F">>

\* nom: is_hex_digit, and the value of a digit
is_hex_digit == {HexDigits[i] : i \in 1..16} \cup {UpperHexDigits[i] : i \in 1..6}
HexValue(c) ==
    IF \E i \in 1..16 : HexDigits[i] = c
    THEN (CHOOSE i \in 1..16 : HexDigits[i] = c) - 1
    ELSE (CHOOSE i \in 1..6 : UpperHexDigits[i] = c) + 9

\* u64::from_str_radix(digits, 16), for values that fit
RECURSIVE from_str_radix(_)
from_str_radix(digits) ==
    IF digits = <<>> THEN 0
    ELSE 16 * from_str_radix(SubSeq(digits, 1, Len(digits) - 1))
         + HexValue(digits[Len(digits)])

\* format!("{:x}", n)
RECURSIVE to_hex(_)
to_hex(n) ==
    IF n < 16 THEN <<HexDigits[n + 1]>>
    ELSE Append(to_hex(n \div 16), HexDigits[(n % 16) + 1])

\* ChunkedEncoder::transform: the bytes added to the output
ChunkedEncoder_transform(input) ==
    IF input = <<>> THEN <<>> ELSE to_hex(Len(input)) \o CRLF \o input \o CRLF

\* ChunkedEncoder::finish_input
ChunkedEncoder_finish_input == <<"0">> \o CRLF \o CRLF

\* parse::chunk_ext: the bytes that take_while accepts
is_chunk_ext(data) == {data[i] : i \in 1..Len(data)} \ {CR, LF}

\* parse::chunk_size_line with the streaming parsers of nom:
\* [kind, len, consumed], kind "Ok", "Incomplete" or "Error"
chunk_size_line(input) ==
    LET none(kind) == [kind |-> kind, len |-> 0, consumed |-> 0]
        i == TakeWhile(input, 1, is_hex_digit)
        j == TakeWhile(input, i, is_chunk_ext(input))
        rest == From(input, j)
    IN  IF i > Len(input) THEN none("Incomplete")
        ELSE IF i = 1 THEN none("Error")
        ELSE IF j > Len(input) THEN none("Incomplete")
        ELSE IF Len(rest) >= 2
        THEN IF SubSeq(rest, 1, 2) = CRLF
             THEN [kind |-> "Ok", len |-> from_str_radix(SubSeq(input, 1, i - 1)),
                   consumed |-> j + 1]
             ELSE none("Error")
        ELSE IF rest = <<CR>> THEN none("Incomplete")
        ELSE none("Error")

\* parse::chunk_boundary: line_ending of nom, streaming
chunk_boundary(input) ==
    IF input = <<>> THEN [kind |-> "Incomplete", consumed |-> 0]
    ELSE IF input[1] = LF THEN [kind |-> "Ok", consumed |-> 1]
    ELSE IF input[1] # CR THEN [kind |-> "Error", consumed |-> 0]
    ELSE IF Len(input) = 1 THEN [kind |-> "Incomplete", consumed |-> 0]
    ELSE IF input[2] = LF THEN [kind |-> "Ok", consumed |-> 2]
    ELSE [kind |-> "Error", consumed |-> 0]

\* ChunkedDecoder::new
ChunkedDecoder_new ==
    [state |-> "SizeLine", buf |-> <<>>, chunk_len |-> 0, chunk_position |-> 0]

\* ChunkedDecoder::process_size_line: [ok, continue, d]
process_size_line(d) ==
    LET r == chunk_size_line(d.buf)
    IN  IF r.kind = "Ok"
        THEN [ok |-> TRUE, continue |-> TRUE,
              d |-> [d EXCEPT !.chunk_len = r.len, !.chunk_position = 0,
                              !.state = IF r.len = 0 THEN "Done" ELSE "ChunkData",
                              !.buf = From(d.buf, r.consumed + 1)]]
        ELSE [ok |-> r.kind = "Incomplete", continue |-> FALSE, d |-> d]

\* process_chunk that forgets how much of the chunk it has copied
Mutant_process_chunk(d) ==
    LET len == Min(d.chunk_len, Len(d.buf))
    IN  [out |-> SubSeq(d.buf, 1, len),
         d |-> [d EXCEPT !.buf = From(d.buf, len + 1),
                         !.state = IF len = d.chunk_len THEN "Boundary" ELSE @]]

\* ChunkedDecoder::process_chunk: [out, d], out the bytes copied to output
process_chunk(d) ==
    LET chunk_remain_len == d.chunk_len - d.chunk_position
        len == Min(chunk_remain_len, Len(d.buf))
    IN  [out |-> SubSeq(d.buf, 1, len),
         d |-> [d EXCEPT !.buf = From(d.buf, len + 1),
                         !.chunk_position = @ + len,
                         !.state = IF d.chunk_position + len = d.chunk_len
                                   THEN "Boundary" ELSE @]]

\* ChunkedDecoder::process_boundary: [ok, continue, d]
process_boundary(d) ==
    LET r == chunk_boundary(d.buf)
    IN  IF r.kind = "Ok"
        THEN [ok |-> TRUE, continue |-> TRUE,
              d |-> [d EXCEPT !.state = "SizeLine",
                              !.buf = From(d.buf, r.consumed + 1)]]
        ELSE [ok |-> r.kind = "Incomplete", continue |-> FALSE, d |-> d]

\* ChunkedDecoder::transform, its loop: [ok, d, output]
RECURSIVE ChunkedDecoder_loop(_, _)
ChunkedDecoder_loop(d, output) ==
    LET size == process_size_line(d)
        chunk == process_chunk(d)
        boundary == process_boundary(d)
        r == IF d.state = "SizeLine"
             THEN [ok |-> size.ok, continue |-> size.continue, d |-> size.d,
                   output |-> output]
             ELSE IF d.state = "ChunkData"
             THEN [ok |-> TRUE, continue |-> TRUE, d |-> chunk.d,
                   output |-> output \o chunk.out]
             ELSE IF d.state = "Boundary"
             THEN [ok |-> boundary.ok, continue |-> boundary.continue,
                   d |-> boundary.d, output |-> output]
             ELSE [ok |-> TRUE, continue |-> FALSE, d |-> d, output |-> output]
    IN  IF ~r.ok THEN [ok |-> FALSE, d |-> r.d, output |-> r.output]
        ELSE IF r.d.buf = <<>> \/ ~r.continue
        THEN [ok |-> TRUE, d |-> r.d, output |-> r.output]
        ELSE ChunkedDecoder_loop(r.d, r.output)

\* impl Codec for ChunkedDecoder: transform
ChunkedDecoder_transform(d, input, output) ==
    ChunkedDecoder_loop([d EXCEPT !.buf = @ \o input], output)

\* impl Codec for ChunkedDecoder: has_remaining_trailer
has_remaining_trailer(d) == d.state = "Done" /\ d.buf # <<>>

\* impl Codec for ChunkedDecoder: remaining_trailer: [d, trailer]
remaining_trailer(d, trailer) ==
    IF d.state = "Done"
    THEN [d |-> [d EXCEPT !.buf = <<>>], trailer |-> trailer \o d.buf]
    ELSE [d |-> d, trailer |-> trailer]

MaxChunks == 2      \* most chunks of a body before its last chunk

\* The payloads of the chunks: letters, digits, and bytes that look like
\* the framing
ChunkPayloads == {<<"a">>, <<"a", "b">>, <<CR, LF, "0">>, <<"1", CR, LF>>}

\* The payloads of the chunks of the bodies
PayloadLists ==
    {<<>>} \cup {<<p>> : p \in ChunkPayloads}
           \cup {<<p, q>> : p \in ChunkPayloads, q \in {<<"a">>, <<"0", CR>>}}

\* The extensions of the size line of the first chunk, the sizes of the
\* last chunk, and the trailers: none, and one field
ChunkExts == {<<>>, <<";", "x">>}
LastChunks == {<<"0">>, <<"0", "0">>}
Trailers == {CRLF, <<"a", ":", SP, "b">> \o CRLF \o CRLF}

RECURSIVE ConcatAll(_)
ConcatAll(seqs) == IF seqs = <<>> THEN <<>> ELSE seqs[1] \o ConcatAll(Tail(seqs))

\* The chunks of a body as the ChunkedEncoder writes them, the first with
\* an extension and a size with a zero before it
ChunkedChunks(payloads, ext) ==
    IF payloads = <<>> THEN <<>>
    ELSE (IF ext = <<>> THEN ChunkedEncoder_transform(payloads[1])
          ELSE <<"0">> \o to_hex(Len(payloads[1])) \o ext \o CRLF
               \o payloads[1] \o CRLF)
         \o ConcatAll([i \in 1..(Len(payloads) - 1) |->
                          ChunkedEncoder_transform(payloads[i + 1])])

\* A body: its bytes, the payloads of its chunks, and the number of its
\* bytes up to the end of the line of the last chunk
ChunkedBody(payloads, ext, last, trailer) ==
    [bytes |-> ChunkedChunks(payloads, ext) \o last \o CRLF \o trailer,
     payloads |-> payloads,
     last_end |-> Len(ChunkedChunks(payloads, ext)) + Len(last) + 2]

ChunkedBodies ==
    {ChunkedBody(payloads, ext, last, trailer) :
        payloads \in {l \in PayloadLists : Len(l) <= MaxChunks},
        ext \in ChunkExts, last \in LastChunks, trailer \in Trailers}

InitChunked ==
    /\ \E body \in ChunkedBodies :
          /\ stream = body.bytes
          /\ obs = [body |-> body, output |-> <<>>, trailer |-> <<>>]
    /\ format = "Chunked"
    /\ pd = PushDecoder_new
    /\ wpos = 0
    /\ event = NoEvent
    /\ dec = ChunkedDecoder_new
    /\ enc = Encoder_new
    /\ call = NoCall

\* transform of the next k bytes of the body
ChunkedTransform(k) ==
    /\ call.ok
    /\ wpos + k <= Len(stream)
    /\ \E r \in {ChunkedDecoder_transform(dec,
                    SubSeq(stream, wpos + 1, wpos + k), obs.output)} :
          /\ dec' = r.d
          /\ obs' = [obs EXCEPT !.output = r.output]
          /\ call' = IF r.ok THEN Returned("transform")
                     ELSE Failed("transform", "InvalidChunkedEncoding")
    /\ wpos' = wpos + k
    /\ UNCHANGED <<stream, format, pd, event, enc>>

\* remaining_trailer; call.flag is has_remaining_trailer before it
ChunkedRemainingTrailer ==
    /\ call.ok
    /\ call.op # "remaining_trailer"
    /\ \E r \in {remaining_trailer(dec, obs.trailer)} :
          /\ dec' = r.d
          /\ obs' = [obs EXCEPT !.trailer = r.trailer]
    /\ call' = [Returned("remaining_trailer") EXCEPT
                   !.flag = has_remaining_trailer(dec)]
    /\ UNCHANGED <<stream, format, pd, wpos, event, enc>>

NextChunked ==
    \/ \E k \in 0..Len(stream) : ChunkedTransform(k)
    \/ ChunkedRemainingTrailer

SpecChunked == InitChunked /\ [][NextChunked]_vars

\* C39: however the calls of transform cut the body, no call fails, the
\* output is a prefix of the payloads of the chunks and is all of them once
\* the line of the last chunk has been given; the bytes given after that
\* line are in the trailer or still held for it, and has_remaining_trailer
\* is false until the line of the last chunk has been given whole.
C39_ChunkedSplitIndependent ==
    /\ call.ok
    /\ IsPrefix(obs.output, ConcatAll(obs.body.payloads))
    /\ wpos >= obs.body.last_end =>
          /\ dec.state = "Done"
          /\ obs.output = ConcatAll(obs.body.payloads)
          /\ obs.trailer \o dec.buf = SubSeq(stream, obs.body.last_end + 1, wpos)
    /\ wpos < obs.body.last_end =>
          /\ ~has_remaining_trailer(dec)
          /\ obs.trailer = <<>>
          /\ dec.state # "Done"

\* A call of transform has ended inside the first chunk of a body of two
\* chunks, between the CR and the LF of its payload, after a size line with
\* an extension
C39_Witness ==
    /\ Len(obs.body.payloads) = 2
    /\ obs.body.payloads[1] = <<CR, LF, "0">>
    /\ call.op = "transform"
    /\ dec.state = "ChunkData"
    /\ dec.chunk_len = 3
    /\ dec.chunk_position = 1
    /\ obs.output = <<CR>>
    /\ SubSeq(stream, 1, 4) = <<"0", "3", ";", "x">>

----------------------------------------------------------------------------
(* compress/zstd/decode.rs: ZstdDecoder, the pull decoder.  In SpecZstdPull *)
(* stream is the source, wpos the bytes read from it, dec the ZstdDecoder,  *)
(* obs.read the bytes its read has returned, obs.fed the bytes its          *)
(* ZstdPushDecoder has taken, obs.expect the data the source was made of.   *)

\* ZstdDecoder::new
ZstdDecoder_new(dictionary) ==
    [push_decoder |-> ZstdPushDecoder_new(dictionary), buf |-> <<>>]

\* ZstdDecoder::fill_decoder with a source that gives up to k bytes to a
\* read: [ok, zd, pos, fed].  The read of the source writes from the start
\* of buf, over the bytes that the write before it did not take.
RECURSIVE fill_decoder(_, _, _, _, _)
fill_decoder(zd, source, pos, k, fed) ==
    IF zd.push_decoder.output # <<>>
    THEN [ok |-> TRUE, zd |-> zd, pos |-> pos, fed |-> fed]
    ELSE LET source_read_len == Min(k, Len(source) - pos)
             buf == SubSeq(source, pos + 1, pos + source_read_len)
             w == ZstdPushDecoder_write(zd.push_decoder, buf)
             decode_write_len == w.n
             pos1 == pos + source_read_len
         IN  IF source_read_len = 0
             THEN [ok |-> TRUE, zd |-> [zd EXCEPT !.buf = <<>>], pos |-> pos,
                   fed |-> fed]
             ELSE IF ~w.ok
             THEN [ok |-> FALSE, zd |-> [push_decoder |-> w.d, buf |-> buf],
                   pos |-> pos1, fed |-> fed]
             ELSE IF decode_write_len = 0
             THEN [ok |-> TRUE, zd |-> [push_decoder |-> w.d, buf |-> buf],
                   pos |-> pos1, fed |-> fed]
             ELSE fill_decoder(
                     [push_decoder |-> w.d,
                      buf |-> From(buf, decode_write_len + 1)],
                     source, pos1, k,
                     fed \o SubSeq(buf, 1, decode_write_len))

\* impl Read for ZstdDecoder: read into a buffer of n bytes:
\* [ok, zd, pos, fed, data]
ZstdDecoder_read(zd, source, pos, k, fed, n) ==
    LET f == fill_decoder(zd, source, pos, k, fed)
        output == f.zd.push_decoder.output
        len == Min(n, Len(output))
    IN  IF ~f.ok
        THEN [ok |-> FALSE, zd |-> f.zd, pos |-> f.pos, fed |-> f.fed,
              data |-> <<>>]
        ELSE [ok |-> TRUE,
              zd |-> [f.zd EXCEPT !.push_decoder.output = From(output, len + 1)],
              pos |-> f.pos, fed |-> f.fed, data |-> SubSeq(output, 1, len)]

MaxPullRead == 2    \* longest buffer given to a read of the ZstdDecoder

\* The sources: one frame, two frames, and a skippable frame before a frame
ZstdPullSources ==
    {[bytes |-> bulk_compress(data), expect |-> data] :
        data \in {<<"a">>, <<"a", "b">>, <<"a", "b", "c">>}}
    \cup {[bytes |-> bulk_compress(<<"a", "b">>) \o bulk_compress(<<"c">>),
           expect |-> <<"a", "b", "c">>],
          [bytes |-> <<"P", "*", "M", "0x18">> \o to_le_bytes(1) \o <<"x">>
                     \o bulk_compress(<<"a", "b">>),
           expect |-> <<"a", "b">>]}

\* The most bytes the source gives to one read
SourceReadLens == {1, 3, 8, BUFFER_LENGTH}

InitZstdPull ==
    /\ \E source \in ZstdPullSources :
          /\ stream = source.bytes
          /\ obs = [expect |-> source.expect, read |-> <<>>, fed |-> <<>>]
    /\ format = "Zstandard"
    /\ pd = PushDecoder_new
    /\ wpos = 0
    /\ event = NoEvent
    /\ dec = ZstdDecoder_new(NoDictionary)
    /\ enc = Encoder_new
    /\ call = NoCall

\* One read of the ZstdDecoder into a buffer of n bytes, the source giving
\* up to k bytes to each of its reads; call.value is the number returned
ZstdPullRead(k, n) ==
    /\ call.ok
    /\ ~(call.op = "read" /\ call.value = 0)
    /\ \E r \in {ZstdDecoder_read(dec, stream, wpos, k, obs.fed, n)} :
          /\ dec' = r.zd
          /\ wpos' = r.pos
          /\ obs' = [obs EXCEPT !.read = @ \o r.data, !.fed = r.fed]
          /\ call' = IF r.ok
                     THEN [Returned("read") EXCEPT !.value = Len(r.data)]
                     ELSE Failed("read", "Io")
    /\ UNCHANGED <<stream, format, pd, event, enc>>

NextZstdPull ==
    \E k \in SourceReadLens, n \in 1..MaxPullRead : ZstdPullRead(k, n)

SpecZstdPull == InitZstdPull /\ [][NextZstdPull]_vars

\* C40: the bytes that the push decoder has taken are the bytes read from
\* the source, in their order and each once, but for those still held for
\* the next write; no read fails, the bytes returned are a prefix of the
\* data of the source, and all of it when a read returns 0.
C40_EveryByteOnce ==
    /\ call.ok
    /\ obs.fed \o dec.buf = SubSeq(stream, 1, wpos)
    /\ IsPrefix(obs.read, obs.expect)
    /\ call.op = "read" /\ call.value = 0 => obs.read = obs.expect

====
